---------------------------- MODULE Spec2Model ----------------------------
(***************************************************************************)
(* A model of the forward computations of neuralforecast's TFT and SOFTS   *)
(* models (src/neuralforecast/models/tft.py, softs.py).                    *)
(*                                                                         *)
(* Tensors are modelled at two levels.  A SHAPE is a sequence of naturals, *)
(* and every torch operation the code performs is an operator on shapes    *)
(* that yields Err when torch would raise (sizes that do not broadcast, a  *)
(* Linear fed the wrong width, an operand that is None).  Where a claim    *)
(* speaks of values, the tensor carries its entries as well: symbolic tags *)
(* for data that is only moved around, exact rationals for softmax and     *)
(* normalisation arithmetic.                                               *)
(***************************************************************************)
EXTENDS Integers, Sequences, FiniteSets, TLC

VARIABLES
    \* ---- TFT (tft.py:377-610) ----
    cfg,                \* constructor arguments of TFT.__init__
    model,              \* what TFT.__init__ built (sizes the submodules were registered with)
    windows_batch,      \* the batch handed to TFT.forward
    pc,                 \* position inside __init__ / forward
    futr_exog,          \* forward's local futr_exog (shape and entries)
    s_inp, k_inp, o_inp, t_observed_tgt,    \* the embedding's four outputs (shapes)
    cs, ce, ch, cc,     \* the four static context vectors
    static_encoder_calls,   \* how often self.static_encoder was invoked
    historical_inputs, future_inputs,       \* the stacks handed to the two VSNs
    historical_features, future_features,   \* outputs of the two VSNs
    history, future, state,                 \* LSTM outputs and the carried (h, c) state
    lstm_calls,         \* log of the recurrent encoders' invocations, in order
    temporal_features,  \* the running [B, T, H] representation
    y_hat,              \* forward's result
    \* ---- a GRN called on its own (tft.py:42-73) ----
    grn,                \* its constructor arguments
    grn_a, grn_c,       \* the shapes of the input and of the context (or None)
    grn_out,            \* the shape forward returned
    grn_pc,
    \* ---- a VariableSelectionNetwork's weights (tft.py:180-193) ----
    vsn_context,        \* whether a context was passed
    grn_outputs,        \* the joint GRN's logits, [position][variable]
    sparse_weights,     \* the softmax of the logits
    vsn_pc,
    \* ---- InterpretableMultiHeadAttention (tft.py:196-248) ----
    attn,               \* the layer: n_head, d_head, the registered _mask
    attn_x,             \* two inputs [position][feature] to compare
    attn_prob,          \* softmax of the masked scores, per input, [head][i][j]
    attn_out,           \* forward's out, per input, [position][feature]
    attn_pc,
    \* ---- STAD (softs.py:38-80) ----
    stad_core,          \* combined_mean after gen2, [batch][channel][core dim]
    stad_training,      \* self.training
    stad_prev, stad_last,   \* the last two forward calls: mode, branch, result
    stad_ncalls,        \* forward calls so far
    stad_pc,
    \* ---- SOFTS.forecast / forward (softs.py:231-266) ----
    softs_cfg,          \* h, outputsize_multiplier, use_norm
    softs_batch,        \* the caller's insample_y, [batch][time][series]
    softs_enc_in,       \* the x_enc handed to enc_embedding
    softs_stats,        \* means and stdev (as its square), per [batch][series]
    softs_dec,          \* the projection's output, [batch][row][series]
    softs_out,          \* forecast's result, [batch][row][series]
    softs_y_pred,       \* forward's result, [batch][step][column]
    softs_pc,
    \* ---- tensor storage during one forward pass (tft.py, softs.py) ----
    mem_pass,           \* which forward pass is followed
    mem_prog,           \* the tensor operations of the pass, in program order
    mem_ip,             \* how many of them have run
    mem_alias,          \* which storage each name refers to
    mem_version,        \* how often each storage was written after its creation
    mem_reads,          \* which operations read each storage: <<scope, line, operand>>
    mem_pc,
    \* ---- scriptv1.py: runs of the transfer-learning script ----
    files,              \* the checkpoint files on disk, one per (source, model, id)
    csvs,               \* the forecast files on disk
    fit_count,          \* how often nf.fit ran for each (source, model, id)
    runs,               \* number of finished runs
    args,               \* the arguments of the current run
    file_exists,        \* main's local of that name
    nf,                 \* main's local of that name: "none", "fitted" or "loaded"
    steps,              \* the pipeline steps the current run has taken
    exc,                \* the exception the current run ended with, if any
    script_pc,
    \* ---- TemporalFusionDecoder.forward, statement by statement (tft.py) ----
    dec_att,            \* self.attention
    dec_encoder_length, \* self.encoder_length
    dec_ce,             \* the argument ce
    dec_tf,             \* the local temporal_features
    dec_enriched,       \* the local enriched
    dec_x,              \* the local x
    dec_attn,           \* the shapes inside the attention call
    dec_adds,           \* the operand pairs of the residual additions so far
    dec_pc

tftVars == <<cfg, model, windows_batch, pc, futr_exog, s_inp, k_inp, o_inp,
             t_observed_tgt, cs, ce, ch, cc, static_encoder_calls,
             historical_inputs, future_inputs, historical_features,
             future_features, history, future, state, lstm_calls,
             temporal_features, y_hat>>

grnVars == <<grn, grn_a, grn_c, grn_out, grn_pc>>

vsnVars == <<vsn_context, grn_outputs, sparse_weights, vsn_pc>>

attnVars == <<attn, attn_x, attn_prob, attn_out, attn_pc>>

stadVars == <<stad_core, stad_training, stad_prev, stad_last, stad_ncalls, stad_pc>>

softsVars == <<softs_cfg, softs_batch, softs_enc_in, softs_stats, softs_dec,
               softs_out, softs_y_pred, softs_pc>>

memVars == <<mem_pass, mem_prog, mem_ip, mem_alias, mem_version, mem_reads, mem_pc>>

scriptVars == <<files, csvs, fit_count, runs, args, file_exists, nf, steps, exc, script_pc>>

decVars == <<dec_att, dec_encoder_length, dec_ce, dec_tf, dec_enriched, dec_x, dec_attn,
             dec_adds, dec_pc>>

vars == <<tftVars, grnVars, vsnVars, attnVars, stadVars, softsVars, memVars, scriptVars, decVars>>

\* what each component's steps leave alone
otherThanTFT ==
    <<grnVars, vsnVars, attnVars, stadVars, softsVars, memVars, scriptVars, decVars>>

otherThanGRN ==
    <<tftVars, vsnVars, attnVars, stadVars, softsVars, memVars, scriptVars, decVars>>

otherThanVSN ==
    <<tftVars, grnVars, attnVars, stadVars, softsVars, memVars, scriptVars, decVars>>

otherThanAttn ==
    <<tftVars, grnVars, vsnVars, stadVars, softsVars, memVars, scriptVars, decVars>>

otherThanSTAD ==
    <<tftVars, grnVars, vsnVars, attnVars, softsVars, memVars, scriptVars, decVars>>

otherThanSOFTS ==
    <<tftVars, grnVars, vsnVars, attnVars, stadVars, memVars, scriptVars, decVars>>

otherThanScript ==
    <<tftVars, grnVars, vsnVars, attnVars, stadVars, softsVars, memVars, decVars>>

otherThanDec ==
    <<tftVars, grnVars, vsnVars, attnVars, stadVars, softsVars, memVars, scriptVars>>

otherThanMem ==
    <<tftVars, grnVars, vsnVars, attnVars, stadVars, softsVars, scriptVars, decVars>>

\* a component that takes no part in the specification at hand stays idle
IdleTFT ==
    /\ cfg = <<>> /\ model = <<>> /\ windows_batch = <<>> /\ pc = "idle"
    /\ futr_exog = <<>> /\ s_inp = <<>> /\ k_inp = <<>> /\ o_inp = <<>>
    /\ t_observed_tgt = <<>> /\ cs = <<>> /\ ce = <<>> /\ ch = <<>> /\ cc = <<>>
    /\ static_encoder_calls = 0 /\ historical_inputs = <<>> /\ future_inputs = <<>>
    /\ historical_features = <<>> /\ future_features = <<>> /\ history = <<>>
    /\ future = <<>> /\ state = <<>> /\ lstm_calls = <<>>
    /\ temporal_features = <<>> /\ y_hat = <<>>

IdleGRN ==
    grn = <<>> /\ grn_a = <<>> /\ grn_c = <<>> /\ grn_out = <<>> /\ grn_pc = "idle"

IdleVSN ==
    vsn_context = FALSE /\ grn_outputs = <<>> /\ sparse_weights = <<>> /\ vsn_pc = "idle"

IdleAttn ==
    attn = <<>> /\ attn_x = <<>> /\ attn_prob = <<>> /\ attn_out = <<>> /\ attn_pc = "idle"

IdleSTAD ==
    /\ stad_core = <<>> /\ stad_training = FALSE /\ stad_prev = <<>>
    /\ stad_last = <<>> /\ stad_ncalls = 0 /\ stad_pc = "idle"

IdleSOFTS ==
    /\ softs_cfg = <<>> /\ softs_batch = <<>> /\ softs_enc_in = <<>>
    /\ softs_stats = <<>> /\ softs_dec = <<>> /\ softs_out = <<>>
    /\ softs_y_pred = <<>> /\ softs_pc = "idle"

IdleMem ==
    /\ mem_pass = <<>> /\ mem_prog = <<>> /\ mem_ip = 0 /\ mem_alias = <<>> /\ mem_version = <<>>
    /\ mem_reads = <<>> /\ mem_pc = "idle"

IdleScript ==
    /\ files = {} /\ csvs = {} /\ fit_count = <<>> /\ runs = 0 /\ args = <<>>
    /\ file_exists = FALSE /\ nf = "none" /\ steps = <<>> /\ exc = "" /\ script_pc = "idle"

IdleDec ==
    /\ dec_att = <<>> /\ dec_encoder_length = 0 /\ dec_ce = <<>> /\ dec_tf = <<>>
    /\ dec_enriched = <<>> /\ dec_x = <<>> /\ dec_attn = <<>> /\ dec_adds = <<>>
    /\ dec_pc = "idle"

-----------------------------------------------------------------------------
(* Bounds of the model.                                                    *)

\* largest batch size B
MaxB == 2
\* largest input_size and largest horizon h
MaxLen == 2
\* largest tgt_size (number of targets Z)
MaxTgt == 2
\* largest configured count of static / historic / future exogenous variables
MaxExog == 1
\* largest outputsize_multiplier of the loss
MaxOut == 2

\* (hidden_size, n_head) pairs tried: divisible and not divisible
HiddenHeads == {<<2, 1>>, <<2, 2>>, <<3, 2>>, <<4, 2>>}

-----------------------------------------------------------------------------
(* Shape algebra: what torch does to the sizes of its operands.            *)

\* the operation raised
Err == <<-1>>
\* Python's None
NoneS == <<-2>>

IsShape(s) == s # Err /\ s # NoneS

Max2(a, b) == IF a >= b THEN a ELSE b

Min2(a, b) == IF a <= b THEN a ELSE b

\* size of the i-th dimension counted from the right, 1 when s has fewer dimensions
DimFromRight(s, i) == IF i <= Len(s) THEN s[Len(s) - i + 1] ELSE 1

\* torch broadcasting of two operands of an elementwise operation
Broadcast(s1, s2) ==
    IF ~IsShape(s1) \/ ~IsShape(s2) THEN Err
    ELSE LET n == Max2(Len(s1), Len(s2))
             ok == \A i \in 1..n :
                      \/ DimFromRight(s1, i) = DimFromRight(s2, i)
                      \/ DimFromRight(s1, i) = 1
                      \/ DimFromRight(s2, i) = 1
         IN  IF ok
             THEN [j \in 1..n |->
                     LET a == DimFromRight(s1, n - j + 1)
                         b == DimFromRight(s2, n - j + 1)
                     IN  IF a = 1 THEN b ELSE a]
             ELSE Err

\* nn.Linear(inF, outF) applied to a tensor of shape s
Linear(s, inF, outF) ==
    IF ~IsShape(s) \/ Len(s) = 0 THEN Err
    ELSE IF s[Len(s)] # inF THEN Err
    ELSE [s EXCEPT ![Len(s)] = outF]

\* tensor.unsqueeze(dim), dim as in Python (0-based, negative from the end)
Unsqueeze(s, dim) ==
    IF ~IsShape(s) THEN Err
    ELSE LET d == IF dim < 0 THEN dim + Len(s) + 1 ELSE dim
         IN  IF d < 0 \/ d > Len(s) THEN Err
             ELSE SubSeq(s, 1, d) \o <<1>> \o SubSeq(s, d + 1, Len(s))

\* tensor.squeeze(dim): drops the dimension when its size is 1
Squeeze(s, dim) ==
    IF ~IsShape(s) THEN Err
    ELSE LET d == IF dim < 0 THEN dim + Len(s) ELSE dim
         IN  IF d < 0 \/ d >= Len(s) THEN Err
             ELSE IF s[d + 1] = 1
                  THEN SubSeq(s, 1, d) \o SubSeq(s, d + 2, Len(s))
                  ELSE s

\* torch.cat of a non-empty list of shapes along dim
Cat(shapes, dim) ==
    IF Len(shapes) = 0 \/ \E i \in 1..Len(shapes) : ~IsShape(shapes[i]) THEN Err
    ELSE LET n == Len(shapes[1])
             d == IF dim < 0 THEN dim + n ELSE dim
             RECURSIVE Sum(_)
             Sum(i) == IF i = 0 THEN 0 ELSE shapes[i][d + 1] + Sum(i - 1)
         IN  IF d < 0 \/ d >= n THEN Err
             ELSE IF \E i \in 1..Len(shapes) :
                        \/ Len(shapes[i]) # n
                        \/ \E j \in 1..n : j # d + 1 /\ shapes[i][j] # shapes[1][j]
                  THEN Err
                  ELSE [shapes[1] EXCEPT ![d + 1] = Sum(Len(shapes))]

\* torch.stack(list, dim=-1): all alike, a new last dimension
StackLast(shapes) ==
    IF Len(shapes) = 0 \/ \E i \in 1..Len(shapes) : ~IsShape(shapes[i]) THEN Err
    ELSE IF \E i \in 1..Len(shapes) : shapes[i] # shapes[1] THEN Err
    ELSE Append(shapes[1], Len(shapes))

\* torch.matmul of two operands with at least two dimensions each
Matmul(s1, s2) ==
    IF ~IsShape(s1) \/ ~IsShape(s2) THEN Err
    ELSE IF Len(s1) < 2 \/ Len(s2) < 2 THEN Err
    ELSE LET b1 == SubSeq(s1, 1, Len(s1) - 2)
             b2 == SubSeq(s2, 1, Len(s2) - 2)
             bb == Broadcast(b1, b2)
         IN  IF bb = Err \/ s1[Len(s1)] # s2[Len(s2) - 1] THEN Err
             ELSE bb \o <<s1[Len(s1) - 1], s2[Len(s2)]>>

\* tensor.permute(perm), perm a tuple of 0-based dimensions
Permute(s, perm) ==
    IF ~IsShape(s) \/ Len(perm) # Len(s) THEN Err
    ELSE [i \in 1..Len(s) |-> s[perm[i] + 1]]

\* x.reshape(*x.shape[:-2], -1): the last two dimensions flattened into one
FlattenLast2(s) ==
    IF ~IsShape(s) \/ Len(s) < 2 THEN Err
    ELSE SubSeq(s, 1, Len(s) - 2) \o <<s[Len(s) - 1] * s[Len(s)]>>

\* x[:, lo:hi] on a tensor with at least two dimensions (hi = -1 stands for "to the end")
SliceTime(s, lo, hi) ==
    IF ~IsShape(s) \/ Len(s) < 2 THEN Err
    ELSE LET n == s[2]
             a == Min2(lo, n)
             b == IF hi < 0 THEN n ELSE Min2(hi, n)
         IN  [s EXCEPT ![2] = Max2(b - a, 0)]

\* x[..., i, :]: variable i (0-based) of a stack
SelectVar(s, i) ==
    IF ~IsShape(s) \/ Len(s) < 2 THEN Err
    ELSE IF i >= s[Len(s) - 1] THEN Err
    ELSE SubSeq(s, 1, Len(s) - 2) \o <<s[Len(s)]>>

\* LayerNorm(n): the last dimension must be n
LayerNorm(s, n) ==
    IF ~IsShape(s) \/ Len(s) = 0 THEN Err
    ELSE IF s[Len(s)] # n THEN Err ELSE s

\* F.glu: the last dimension is split in two halves
FGlu(s) ==
    IF ~IsShape(s) \/ Len(s) = 0 THEN Err
    ELSE IF s[Len(s)] % 2 # 0 THEN Err
    ELSE [s EXCEPT ![Len(s)] = s[Len(s)] \div 2]


\* tensor.mean(dim) / tensor.sum(dim) without keepdim: the dimension goes away
ReduceDim(s, dim) ==
    IF ~IsShape(s) THEN Err
    ELSE LET d == IF dim < 0 THEN dim + Len(s) ELSE dim
         IN  IF d < 0 \/ d >= Len(s) THEN Err
             ELSE SubSeq(s, 1, d) \o SubSeq(s, d + 2, Len(s))

-----------------------------------------------------------------------------
(* The building blocks of tft.py, on shapes.  A size of 0 stands for an    *)
(* argument that is None: the code tests these with truthiness             *)
(* ("if output_size", "if size"), which treats 0 and None alike.           *)

\* GLU.forward: a Linear to twice the width, then F.glu
GLU(s, hidden_size, output_size) == FGlu(Linear(s, hidden_size, output_size * 2))

\* MaybeLayerNorm: the identity for output_size 1, else a LayerNorm over
\* output_size (or hidden_size when output_size is not given)
MaybeLayerNorm(s, output_size, hidden_size) ==
    IF output_size # 0 /\ output_size = 1
    THEN (IF IsShape(s) THEN s ELSE Err)
    ELSE LayerNorm(s, IF output_size # 0 THEN output_size ELSE hidden_size)

\* the constructor arguments of a GRN
GRNCfg(input_size, hidden_size, output_size, context_hidden_size) ==
    [input_size |-> input_size, hidden_size |-> hidden_size,
     output_size |-> output_size, context_hidden_size |-> context_hidden_size]

\* GRN.forward(a, c): the shape of the result; c = NoneS when no context is passed
GRNForward(g, a, c) ==
    LET gluOut == IF g.output_size # 0 THEN g.output_size ELSE g.hidden_size
        xa == Linear(a, g.input_size, g.hidden_size)
        xc == IF c # NoneS
              THEN (IF g.context_hidden_size = 0
                    THEN Err        \* no lin_c was registered
                    ELSE Broadcast(xa,
                           Unsqueeze(Linear(c, g.context_hidden_size, g.hidden_size), 1)))
              ELSE xa
        xi == Linear(xc, g.hidden_size, g.hidden_size)
        xg == GLU(xi, g.hidden_size, gluOut)
        y  == IF g.output_size # 0 THEN Linear(a, g.input_size, g.output_size) ELSE a
        xs == Broadcast(xg, y)
    IN  MaybeLayerNorm(xs, g.output_size, g.hidden_size)

\* TFTEmbedding._apply_embedding: size is the count the vectors were created
\* with (0: the vectors are None)
ApplyEmbedding(cont, size, hidden_size) ==
    IF cont = NoneS THEN NoneS
    ELSE IF size = 0 THEN Err
    ELSE Broadcast(Broadcast(Unsqueeze(cont, -1), <<size, hidden_size>>),
                   <<size, hidden_size>>)

\* TFTEmbedding.forward, the target part
TargetEmbedding(target_inp, tgt_size, hidden_size) ==
    IF tgt_size = 0 THEN Err
    ELSE Broadcast(
           Squeeze(Matmul(Unsqueeze(Unsqueeze(target_inp, 3), 4),
                          Unsqueeze(<<tgt_size, hidden_size>>, 1)), 3),
           <<tgt_size, hidden_size>>)

\* VariableSelectionNetwork.forward for a VSN built with num_inputs variables
VSNForward(num_inputs, hidden_size, x, context) ==
    LET Xi == FlattenLast2(x)
        grn_shape == GRNForward(
            GRNCfg(hidden_size * num_inputs, hidden_size, num_inputs, hidden_size),
            Xi, context)
        weights_shape == grn_shape       \* softmax keeps the shape
        transformed_embed_list ==
            [i \in 1..num_inputs |->
                GRNForward(GRNCfg(hidden_size, hidden_size, 0, 0),
                           SelectVar(x, i - 1), NoneS)]
        transformed_embed == StackLast(transformed_embed_list)
        variable_ctx ==
            Squeeze(Matmul(transformed_embed, Unsqueeze(weights_shape, -1)), -1)
    IN  [variable_ctx |-> variable_ctx, sparse_weights |-> weights_shape]

\* StaticCovariateEncoder.forward: the shape every one of the four context
\* GRNs returns
StaticCovariateEncoderForward(num_static_vars, hidden_size, x) ==
    GRNForward(GRNCfg(hidden_size, hidden_size, 0, 0),
               VSNForward(num_static_vars, hidden_size, x, NoneS).variable_ctx,
               NoneS)

\* nn.LSTM(hidden, hidden, batch_first=True) on input inp with initial state
\* (h0, c0): the output's shape, Err when torch rejects the sizes
LSTM(inp, h0, c0, hidden_size) ==
    IF ~IsShape(inp) \/ Len(inp) # 3 THEN Err
    ELSE IF inp[3] # hidden_size THEN Err
    ELSE IF h0 # <<1, inp[1], hidden_size>> \/ c0 # <<1, inp[1], hidden_size>> THEN Err
    ELSE inp

-----------------------------------------------------------------------------
(* InterpretableMultiHeadAttention                                         *)

\* float("-inf") in the mask
NegInf == -1000

\* torch.triu(torch.full((L, L), -inf), 1): entry (i, j), 1-based, is kept
\* when j - i >= 1 and zeroed otherwise
TriuMask(L) ==
    [i \in 1..L |-> [j \in 1..L |-> IF j - i >= 1 THEN NegInf ELSE 0]]

\* __init__ without its assert
AttentionInit_mut(n_head, hidden_size, example_length) ==
    [ok |-> TRUE, n_head |-> n_head, d_head |-> hidden_size \div n_head,
     hidden_size |-> hidden_size, example_length |-> example_length,
     mask |-> TriuMask(example_length)]

\* InterpretableMultiHeadAttention.__init__: ok is FALSE when the assert fails
AttentionInit(n_head, hidden_size, example_length) ==
    [ok |-> hidden_size % n_head = 0, n_head |-> n_head,
     d_head |-> hidden_size \div n_head,
     hidden_size |-> hidden_size, example_length |-> example_length,
     mask |-> TriuMask(example_length)]

\* InterpretableMultiHeadAttention.forward on shapes: the shape of out
AttentionForwardShape(att, x) ==
    IF ~IsShape(x) \/ Len(x) # 3 THEN Err
    ELSE LET bs == x[1]
             t  == x[2]
             qkv == Linear(x, att.hidden_size, (2 * att.n_head + 1) * att.d_head)
             q == <<bs, t, att.n_head, att.d_head>>
             k == <<bs, t, att.n_head, att.d_head>>
             v == <<bs, t, att.d_head>>
             attn_score == Matmul(Permute(q, <<0, 2, 1, 3>>), Permute(k, <<0, 2, 3, 1>>))
             masked == Broadcast(attn_score,
                                 <<1, att.example_length, att.example_length>>)
             attn_vec == Matmul(masked, Unsqueeze(v, 1))
             m_attn_vec == ReduceDim(attn_vec, 1)
         IN  IF qkv = Err THEN Err
             ELSE Linear(m_attn_vec, att.d_head, att.hidden_size)

\* TemporalFusionDecoder.forward on shapes
DecoderForward(att, encoder_length, x_in, ce_shape) ==
    LET H == att.hidden_size
        enriched == GRNForward(GRNCfg(H, H, 0, H), x_in, ce_shape)
        x0 == AttentionForwardShape(att, enriched)
        x1 == SliceTime(x0, encoder_length, -1)
        tf == SliceTime(x_in, encoder_length, -1)
        en == SliceTime(enriched, encoder_length, -1)
        x2 == LayerNorm(Broadcast(GLU(x1, H, H), en), H)
        x3 == GRNForward(GRNCfg(H, H, 0, 0), x2, NoneS)
    IN  LayerNorm(Broadcast(GLU(x3, H, H), tf), H)

-----------------------------------------------------------------------------
(* Tensors whose entries matter: a shape and the entries, indexed by       *)
(* 1-based index tuples.  Batch tensors hold distinct symbolic tags        *)
(* <<id, b, t, f>>, so that an entry's origin can be told from its value.  *)

NoneT == [shape |-> NoneS, data |-> <<>>]

Idx3(s) == (1..s[1]) \X (1..s[2]) \X (1..s[3])

\* a 3-D batch tensor whose entry (b, t, f) is the tag <<id, b, t, f>>
Tagged3(id, s) == [shape |-> s, data |-> [i \in Idx3(s) |-> <<id, i[1], i[2], i[3]>>]]

\* a 2-D batch tensor [B, S], shape only
Tagged2(s) == [shape |-> s, data |-> <<>>]

\* y[:, [-1]]: the last timestep, the time axis kept
LastStep(y) ==
    IF y.shape[2] = 0 THEN [shape |-> Err, data |-> <<>>]
    ELSE [shape |-> <<y.shape[1], 1, y.shape[3]>>,
          data  |-> [i \in Idx3(<<y.shape[1], 1, y.shape[3]>>) |->
                        y.data[<<i[1], y.shape[2], i[3]>>]]]

\* tensor.repeat(r1, r2, r3) of a 3-D tensor
Repeat3(x, r1, r2, r3) ==
    IF ~IsShape(x.shape) THEN [shape |-> Err, data |-> <<>>]
    ELSE LET s == <<x.shape[1] * r1, x.shape[2] * r2, x.shape[3] * r3>>
         IN  [shape |-> s,
              data  |-> [i \in Idx3(s) |->
                            x.data[<<((i[1] - 1) % x.shape[1]) + 1,
                                     ((i[2] - 1) % x.shape[2]) + 1,
                                     ((i[3] - 1) % x.shape[3]) + 1>>]]]

-----------------------------------------------------------------------------
(* TFT.__init__ and TFT.forward                                            *)

\* the sizes tried for a dimension bounded by max: the smallest and the largest
Sizes(max) == {1, max}

Configs ==
    {[h |-> h, input_size |-> n, tgt_size |-> z, stat_exog_size |-> s,
      hist_exog_size |-> o, futr_exog_size |-> f,
      hidden_size |-> hh[1], n_head |-> hh[2], outputsize_multiplier |-> m] :
        h \in Sizes(MaxLen), n \in Sizes(MaxLen), z \in Sizes(MaxTgt),
        s \in {0, MaxExog}, o \in {0, MaxExog}, f \in {0, MaxExog},
        hh \in HiddenHeads, m \in Sizes(MaxOut)}

\* the batches the base class can hand to forward for a model configured
\* with c: an exogenous entry is a tensor of the documented shape or None,
\* and it is None whenever the configured count is 0
Batches(c) ==
    {[insample_y |-> Tagged3(1, <<B, c.input_size, c.tgt_size>>),
      futr_exog  |-> IF fp THEN Tagged3(2, <<B, c.input_size + c.h, c.futr_exog_size>>)
                     ELSE NoneT,
      hist_exog  |-> IF hp THEN Tagged3(3, <<B, c.input_size, c.hist_exog_size>>)
                     ELSE NoneT,
      stat_exog  |-> IF sp THEN Tagged2(<<B, c.stat_exog_size>>) ELSE NoneT] :
        B \in Sizes(MaxB),
        fp \in {x \in BOOLEAN : x => c.futr_exog_size > 0},
        hp \in {x \in BOOLEAN : x => c.hist_exog_size > 0},
        sp \in {x \in BOOLEAN : x => c.stat_exog_size > 0}}

NoModel ==
    [constructed |-> FALSE, example_length |-> 0, futr_exog_size |-> 0,
     num_historic_vars |-> 0, attention |-> AttentionInit(1, 0, 0)]

\* a context vector: its shape and where its values come from
Ctx(shape, val) == [shape |-> shape, val |-> val]

NoCtx == Ctx(NoneS, "unset")

NoState == [h |-> NoCtx, c |-> NoCtx]

\* a stack of embedded variables: its shape and the tensors it was built from
NoStack == [shape |-> NoneS, parts |-> <<>>]

InitTFT ==
    /\ cfg \in Configs
    /\ windows_batch \in Batches(cfg)
    /\ model = NoModel
    /\ pc = "new"
    /\ futr_exog = NoneT
    /\ s_inp = NoneS /\ k_inp = NoneS /\ o_inp = NoneS /\ t_observed_tgt = NoneS
    /\ cs = NoCtx /\ ce = NoCtx /\ ch = NoCtx /\ cc = NoCtx
    /\ static_encoder_calls = 0
    /\ historical_inputs = NoStack /\ future_inputs = NoneS
    /\ historical_features = NoneS /\ future_features = NoneS
    /\ history = NoneS /\ future = NoneS /\ state = NoState
    /\ lstm_calls = <<>>
    /\ temporal_features = NoneS
    /\ y_hat = NoneS
    /\ IdleGRN /\ IdleVSN /\ IdleAttn /\ IdleSTAD /\ IdleSOFTS /\ IdleMem /\ IdleScript
    /\ IdleDec

\* TFT.__init__ (tft.py:502-542): the sizes the submodules are built with;
\* the attention layer's assert ends construction with an exception
TFTInit ==
    /\ pc = "new"
    /\ LET futr_exog_size == Max2(cfg.futr_exog_size, 1)
           num_historic_vars == futr_exog_size + cfg.hist_exog_size + cfg.tgt_size
           att == AttentionInit(cfg.n_head, cfg.hidden_size, cfg.input_size + cfg.h)
       IN  IF att.ok
           THEN /\ model' = [constructed |-> TRUE,
                             example_length |-> cfg.input_size + cfg.h,
                             futr_exog_size |-> futr_exog_size,
                             num_historic_vars |-> num_historic_vars,
                             attention |-> att]
                /\ pc' = "constructed"
           ELSE /\ model' = model
                /\ pc' = "ctor_raised"
    /\ UNCHANGED otherThanTFT
    /\ UNCHANGED <<cfg, windows_batch, futr_exog, s_inp, k_inp, o_inp,
                   t_observed_tgt, cs, ce, ch, cc, static_encoder_calls,
                   historical_inputs, future_inputs, historical_features,
                   future_features, history, future, state, lstm_calls,
                   temporal_features, y_hat>>

\* the future-known input forward builds when the batch has none
\* (tft.py:553-554)
SynthesizeFutr(y_insample, example_length) ==
    Repeat3(LastStep(y_insample), 1, example_length, 1)

\* forward, tft.py:547-554: read the batch, synthesize futr_exog if None
ForwardParse ==
    /\ pc = "constructed"
    /\ futr_exog' = IF windows_batch.futr_exog.shape = NoneS
                    THEN SynthesizeFutr(windows_batch.insample_y, model.example_length)
                    ELSE windows_batch.futr_exog
    /\ pc' = IF futr_exog'.shape = Err THEN "raised" ELSE "parsed"
    /\ UNCHANGED otherThanTFT
    /\ UNCHANGED <<cfg, model, windows_batch, s_inp, k_inp, o_inp,
                   t_observed_tgt, cs, ce, ch, cc, static_encoder_calls,
                   historical_inputs, future_inputs, historical_features,
                   future_features, history, future, state, lstm_calls,
                   temporal_features, y_hat>>

\* forward, tft.py:556-561: the embedding of the four inputs
ForwardEmbedding ==
    /\ pc = "parsed"
    /\ LET H == cfg.hidden_size
           s == ApplyEmbedding(windows_batch.stat_exog.shape, cfg.stat_exog_size, H)
           k == ApplyEmbedding(futr_exog.shape, model.futr_exog_size, H)
           o == ApplyEmbedding(windows_batch.hist_exog.shape, cfg.hist_exog_size, H)
           t == TargetEmbedding(windows_batch.insample_y.shape, cfg.tgt_size, H)
       IN  IF Err \in {s, k, o, t}
           THEN /\ pc' = "raised"
                /\ UNCHANGED <<s_inp, k_inp, o_inp, t_observed_tgt>>
           ELSE /\ pc' = "embedded"
                /\ s_inp' = s /\ k_inp' = k /\ o_inp' = o /\ t_observed_tgt' = t
    /\ UNCHANGED otherThanTFT
    /\ UNCHANGED <<cfg, model, windows_batch, futr_exog, cs, ce, ch, cc,
                   static_encoder_calls, historical_inputs, future_inputs,
                   historical_features, future_features, history, future,
                   state, lstm_calls, temporal_features, y_hat>>

\* the all-zero contexts a wrong size would give: ch, cc without the
\* leading layer axis
ZeroContexts_mut(t_shape) ==
    IF Len(t_shape) # 4 THEN <<Ctx(Err, "unset"), Ctx(Err, "unset"),
                               Ctx(Err, "unset"), Ctx(Err, "unset")>>
    ELSE <<Ctx(<<t_shape[1], t_shape[4]>>, "zeros"),
           Ctx(<<t_shape[1], t_shape[4]>>, "zeros"),
           Ctx(<<t_shape[1], t_shape[4]>>, "zeros"),
           Ctx(<<t_shape[1], t_shape[4]>>, "zeros")>>

\* forward, tft.py:570-578: the four contexts when there is no static input
ZeroContexts(t_shape) ==
    IF Len(t_shape) # 4 THEN <<Ctx(Err, "unset"), Ctx(Err, "unset"),
                               Ctx(Err, "unset"), Ctx(Err, "unset")>>
    ELSE <<Ctx(<<t_shape[1], t_shape[4]>>, "zeros"),
           Ctx(<<t_shape[1], t_shape[4]>>, "zeros"),
           Ctx(<<1, t_shape[1], t_shape[4]>>, "zeros"),
           Ctx(<<1, t_shape[1], t_shape[4]>>, "zeros")>>

\* forward, tft.py:566-567: the four contexts the static encoder returns,
\* ch and cc with the LSTM's layer axis added
EncodedContexts(num_static_vars, hidden_size, s_shape) ==
    LET g == StaticCovariateEncoderForward(num_static_vars, hidden_size, s_shape)
    IN  <<Ctx(g, "context_grns[0]"), Ctx(g, "context_grns[1]"),
          Ctx(Unsqueeze(g, 0), "context_grns[2]"),
          Ctx(Unsqueeze(g, 0), "context_grns[3]")>>

\* a static encoder that also runs when there is no static input
UseStaticEncoder_mut(s_shape) == TRUE

\* forward, tft.py:565: whether the static encoder path is taken
UseStaticEncoder(s_shape) == s_shape # NoneS

\* forward, tft.py:563-578: static context
ForwardStaticContext ==
    /\ pc = "embedded"
    /\ LET use == UseStaticEncoder(s_inp)
           c == IF use
                THEN EncodedContexts(cfg.stat_exog_size, cfg.hidden_size, s_inp)
                ELSE ZeroContexts(t_observed_tgt)
       IN  /\ static_encoder_calls' = static_encoder_calls + (IF use THEN 1 ELSE 0)
           /\ IF \E i \in 1..4 : c[i].shape = Err
              THEN /\ pc' = "raised"
                   /\ UNCHANGED <<cs, ce, ch, cc>>
              ELSE /\ pc' = "context"
                   /\ cs' = c[1] /\ ce' = c[2] /\ ch' = c[3] /\ cc' = c[4]
    /\ UNCHANGED otherThanTFT
    /\ UNCHANGED <<cfg, model, windows_batch, futr_exog, s_inp, k_inp, o_inp,
                   t_observed_tgt, historical_inputs, future_inputs,
                   historical_features, future_features, history, future,
                   state, lstm_calls, temporal_features, y_hat>>

\* forward, tft.py:581-587: the list of historical inputs, concatenated
\* along the variable axis
HistoricalInputs(k, t, o, input_size) ==
    LET base == <<[name |-> "k_inp", shape |-> SliceTime(k, 0, input_size)],
                  [name |-> "t_observed_tgt", shape |-> SliceTime(t, 0, input_size)]>>
        lst  == IF o # NoneS
                THEN <<[name |-> "o_inp", shape |-> SliceTime(o, 0, input_size)]>> \o base
                ELSE base
    IN  [shape |-> Cat([i \in 1..Len(lst) |-> lst[i].shape], -2),
         parts |-> [i \in 1..Len(lst) |-> lst[i].name]]

\* forward, tft.py:580-590: historical and future inputs
ForwardHistoricalInputs ==
    /\ pc = "context"
    /\ LET hi == HistoricalInputs(k_inp, t_observed_tgt, o_inp, cfg.input_size)
           fi == SliceTime(k_inp, cfg.input_size, -1)
       IN  IF hi.shape = Err \/ fi = Err
           THEN /\ pc' = "raised"
                /\ UNCHANGED <<historical_inputs, future_inputs>>
           ELSE /\ pc' = "stacked"
                /\ historical_inputs' = hi
                /\ future_inputs' = fi
    /\ UNCHANGED otherThanTFT
    /\ UNCHANGED <<cfg, model, windows_batch, futr_exog, s_inp, k_inp, o_inp,
                   t_observed_tgt, cs, ce, ch, cc, static_encoder_calls,
                   historical_features, future_features, history, future,
                   state, lstm_calls, temporal_features, y_hat>>

\* one entry of the log of LSTM invocations
LstmCall(module, init, final) == [module |-> module, init |-> init, final |-> final]

\* TemporalCovariateEncoder.forward, tft.py:301-302: the historical VSN and
\* the historical LSTM, started from (ch, cc)
EncoderHistory ==
    /\ pc = "stacked"
    /\ LET H  == cfg.hidden_size
           hf == VSNForward(model.num_historic_vars, H, historical_inputs.shape,
                            cs.shape).variable_ctx
           out == LSTM(hf, ch.shape, cc.shape, H)
           st == [h |-> Ctx(ch.shape, "history_encoder.h_n"),
                  c |-> Ctx(cc.shape, "history_encoder.c_n")]
       IN  IF out = Err
           THEN /\ pc' = "raised"
                /\ UNCHANGED <<historical_features, history, state, lstm_calls>>
           ELSE /\ pc' = "history"
                /\ historical_features' = hf
                /\ history' = out
                /\ state' = st
                /\ lstm_calls' = Append(lstm_calls,
                       LstmCall("history_encoder", [h |-> ch, c |-> cc], st))
    /\ UNCHANGED otherThanTFT
    /\ UNCHANGED <<cfg, model, windows_batch, futr_exog, s_inp, k_inp, o_inp,
                   t_observed_tgt, cs, ce, ch, cc, static_encoder_calls,
                   historical_inputs, future_inputs, future_features, future,
                   temporal_features, y_hat>>

\* a future encoder restarted from the static contexts
FutureInitialState_mut(st, h0, c0) == [h |-> h0, c |-> c0]

\* tft.py:305: the state the future LSTM is started from
FutureInitialState(st, h0, c0) == st

\* TemporalCovariateEncoder.forward, tft.py:304-305: the future VSN and the
\* future LSTM
EncoderFuture ==
    /\ pc = "history"
    /\ LET H  == cfg.hidden_size
           ff == VSNForward(model.futr_exog_size, H, future_inputs, cs.shape).variable_ctx
           init == FutureInitialState(state, ch, cc)
           out == LSTM(ff, init.h.shape, init.c.shape, H)
           st == [h |-> Ctx(init.h.shape, "future_encoder.h_n"),
                  c |-> Ctx(init.c.shape, "future_encoder.c_n")]
       IN  IF out = Err
           THEN /\ pc' = "raised"
                /\ UNCHANGED <<future_features, future, lstm_calls>>
           ELSE /\ pc' = "future"
                /\ future_features' = ff
                /\ future' = out
                /\ lstm_calls' = Append(lstm_calls, LstmCall("future_encoder", init, st))
    /\ UNCHANGED otherThanTFT
    /\ UNCHANGED <<cfg, model, windows_batch, futr_exog, s_inp, k_inp, o_inp,
                   t_observed_tgt, cs, ce, ch, cc, static_encoder_calls,
                   historical_inputs, future_inputs, historical_features,
                   history, state, temporal_features, y_hat>>

\* TemporalCovariateEncoder.forward, tft.py:308-313: gated skip connection
EncoderGate ==
    /\ pc = "future"
    /\ LET H == cfg.hidden_size
           input_embedding == Cat(<<historical_features, future_features>>, 1)
           tf == LayerNorm(Broadcast(GLU(Cat(<<history, future>>, 1), H, H),
                                     input_embedding), H)
       IN  IF tf = Err
           THEN pc' = "raised" /\ UNCHANGED temporal_features
           ELSE pc' = "encoded" /\ temporal_features' = tf
    /\ UNCHANGED otherThanTFT
    /\ UNCHANGED <<cfg, model, windows_batch, futr_exog, s_inp, k_inp, o_inp,
                   t_observed_tgt, cs, ce, ch, cc, static_encoder_calls,
                   historical_inputs, future_inputs, historical_features,
                   future_features, history, future, state, lstm_calls, y_hat>>

\* forward, tft.py:603-605: the temporal fusion decoder
ForwardDecoder ==
    /\ pc = "encoded"
    /\ LET tf == DecoderForward(model.attention, cfg.input_size, temporal_features,
                                ce.shape)
       IN  IF tf = Err
           THEN pc' = "raised" /\ UNCHANGED temporal_features
           ELSE pc' = "decoded" /\ temporal_features' = tf
    /\ UNCHANGED otherThanTFT
    /\ UNCHANGED <<cfg, model, windows_batch, futr_exog, s_inp, k_inp, o_inp,
                   t_observed_tgt, cs, ce, ch, cc, static_encoder_calls,
                   historical_inputs, future_inputs, historical_features,
                   future_features, history, future, state, lstm_calls, y_hat>>

\* forward, tft.py:608-610: the output adapter
ForwardOutput ==
    /\ pc = "decoded"
    /\ LET y == Linear(temporal_features, cfg.hidden_size, cfg.outputsize_multiplier)
       IN  IF y = Err
           THEN pc' = "raised" /\ UNCHANGED y_hat
           ELSE pc' = "done" /\ y_hat' = y
    /\ UNCHANGED otherThanTFT
    /\ UNCHANGED <<cfg, model, windows_batch, futr_exog, s_inp, k_inp, o_inp,
                   t_observed_tgt, cs, ce, ch, cc, static_encoder_calls,
                   historical_inputs, future_inputs, historical_features,
                   future_features, history, future, state, lstm_calls,
                   temporal_features>>

NextTFT ==
    \/ TFTInit
    \/ ForwardParse
    \/ ForwardEmbedding
    \/ ForwardStaticContext
    \/ ForwardHistoricalInputs
    \/ EncoderHistory
    \/ EncoderFuture
    \/ EncoderGate
    \/ ForwardDecoder
    \/ ForwardOutput

SpecTFT == InitTFT /\ [][NextTFT]_vars

-----------------------------------------------------------------------------
(* Claims about TFT, checked under SpecTFT.                                *)

BatchB == windows_batch.insample_y.shape[1]

StatPresent == windows_batch.stat_exog.shape # NoneS

HistPresent == windows_batch.hist_exog.shape # NoneS

FutrPresent == windows_batch.futr_exog.shape # NoneS

\* every exogenous channel is either absent (count 0, entry None) or
\* present (count > 0, entry a tensor)
ConsistentBatch ==
    /\ StatPresent <=> cfg.stat_exog_size > 0
    /\ HistPresent <=> cfg.hist_exog_size > 0
    /\ FutrPresent <=> cfg.futr_exog_size > 0

\* forward is past its static-context step
PastContext ==
    pc \in {"context", "stacked", "history", "future", "encoded", "decoded", "done"}

\* C1: for each of the 8 absent/present combinations of static, historical
\* and future exogenous, forward on a batch with insample target
\* [B, input_size, 1] never raises (each step hands over to the next until
\* forward returns) and returns a tensor of shape
\* [B, h, outputsize_multiplier].
C1_ForwardAllCombinations ==
    (ConsistentBatch /\ cfg.tgt_size = 1) =>
        /\ pc # "raised"
        /\ pc \in {"new", "constructed", "ctor_raised", "parsed", "embedded", "context",
                  "stacked", "history", "future", "encoded", "decoded", "done"}
        /\ pc = "done" => y_hat = <<BatchB, cfg.h, cfg.outputsize_multiplier>>

\* C1 witness: forward has returned for a model with no exogenous input at all
C1_Witness ==
    /\ pc = "done" /\ ConsistentBatch /\ cfg.tgt_size = 1
    /\ ~StatPresent /\ ~HistPresent /\ ~FutrPresent
    /\ y_hat = <<BatchB, cfg.h, cfg.outputsize_multiplier>>

\* C3 (as claimed): when the batch's future exogenous entry is None, the
\* future-known input forward synthesizes has shape [B, input_size + h, K],
\* K = max(configured future count, 1), and each of its timesteps holds the
\* last observed insample target value, for every tgt_size and every K.
C3_SynthesizedFutr ==
    (pc \notin {"new", "ctor_raised", "constructed"} /\ ~FutrPresent) =>
        /\ futr_exog.shape = <<BatchB, cfg.input_size + cfg.h, model.futr_exog_size>>
        /\ \A i \in Idx3(futr_exog.shape) :
              futr_exog.data[i] =
                  windows_batch.insample_y.data[<<i[1], cfg.input_size, i[3]>>]

\* C4: without static exogenous the static encoder is never invoked and the
\* four contexts are zeros of shapes [B,H], [B,H], [1,B,H], [1,B,H]; with
\* static exogenous the encoder is invoked exactly once and cs, ce, ch, cc
\* are the outputs of its four context GRNs, in that order.
C4_StaticContext ==
    /\ ~StatPresent =>
          /\ static_encoder_calls = 0
          /\ PastContext =>
                /\ cs = Ctx(<<BatchB, cfg.hidden_size>>, "zeros")
                /\ ce = Ctx(<<BatchB, cfg.hidden_size>>, "zeros")
                /\ ch = Ctx(<<1, BatchB, cfg.hidden_size>>, "zeros")
                /\ cc = Ctx(<<1, BatchB, cfg.hidden_size>>, "zeros")
    /\ StatPresent =>
          /\ static_encoder_calls <= 1
          /\ pc \in {"new", "ctor_raised", "constructed", "parsed", "embedded"}
                => static_encoder_calls = 0
          /\ PastContext =>
                /\ static_encoder_calls = 1
                /\ cs = Ctx(<<BatchB, cfg.hidden_size>>, "context_grns[0]")
                /\ ce = Ctx(<<BatchB, cfg.hidden_size>>, "context_grns[1]")
                /\ ch = Ctx(<<1, BatchB, cfg.hidden_size>>, "context_grns[2]")
                /\ cc = Ctx(<<1, BatchB, cfg.hidden_size>>, "context_grns[3]")

\* C4 witness: forward returned without static input, contexts all zero
C4_Witness ==
    /\ pc = "done" /\ ~StatPresent /\ static_encoder_calls = 0
    /\ cs.val = "zeros" /\ cc.shape = <<1, BatchB, cfg.hidden_size>>

\* C5: the historical recurrent encoder runs first, from (ch, cc); the
\* future recurrent encoder runs second and is started from exactly the
\* state the historical encoder returned; no encoder runs a second time.
C5_EncoderStateChain ==
    /\ Len(lstm_calls) <= 2
    /\ pc \in {"history"} => Len(lstm_calls) = 1
    /\ pc \in {"future", "encoded", "decoded", "done"} => Len(lstm_calls) = 2
    /\ Len(lstm_calls) >= 1 =>
          /\ lstm_calls[1].module = "history_encoder"
          /\ lstm_calls[1].init = [h |-> ch, c |-> cc]
          /\ lstm_calls[1].final = state
    /\ Len(lstm_calls) = 2 =>
          /\ lstm_calls[2].module = "future_encoder"
          /\ lstm_calls[2].init = lstm_calls[1].final
          /\ lstm_calls[2].init.h.val = "history_encoder.h_n"
          /\ lstm_calls[2].init.c.val = "history_encoder.c_n"

\* C5 witness: both encoders have run, the contexts coming from static input
C5_Witness ==
    /\ Len(lstm_calls) = 2 /\ StatPresent
    /\ lstm_calls[2].init = state

\* C8: a hidden_size not divisible by n_head makes construction raise and
\* leaves no model; a divisible one constructs with
\* d_head = hidden_size / n_head.
C8_HeadDivisibility ==
    pc # "new" =>
        IF cfg.hidden_size % cfg.n_head # 0
        THEN pc = "ctor_raised" /\ ~model.constructed
        ELSE /\ pc # "ctor_raised" /\ model.constructed
             /\ model.attention.d_head * cfg.n_head = cfg.hidden_size

\* C8 witness: construction was attempted with an indivisible hidden_size
C8_Witness ==
    pc = "ctor_raised" /\ cfg.hidden_size % cfg.n_head # 0 /\ ~model.constructed

\* forward has handed the two stacks to the temporal encoder (tft.py:594)
ReachedTemporalEncoder ==
    pc \in {"stacked", "history", "future", "encoded", "decoded", "done"}

\* C21 (as claimed): in every forward call that reaches the temporal
\* encoder, with future exogenous supplied or synthesized, the stack handed
\* to the historical VSN has input_size timesteps and exactly K + O + Z
\* variables (K = max(configured future count, 1), O the historical count,
\* Z = tgt_size) in the order [historical-observed if present, future-known,
\* target], which is the num_historic_vars the VSN was built with, and the
\* stack handed to the future VSN has h timesteps and exactly K variables.
C21_EncoderStacks ==
    (ReachedTemporalEncoder /\ ConsistentBatch) =>
        /\ model.num_historic_vars =
              model.futr_exog_size + cfg.hist_exog_size + cfg.tgt_size
        /\ historical_inputs.shape =
              <<BatchB, cfg.input_size, model.num_historic_vars, cfg.hidden_size>>
        /\ historical_inputs.parts =
              (IF HistPresent THEN <<"o_inp">> ELSE <<>>)
                  \o <<"k_inp", "t_observed_tgt">>
        /\ future_inputs =
              <<BatchB, cfg.h, model.futr_exog_size, cfg.hidden_size>>

-----------------------------------------------------------------------------
(* A GRN called on its own: GRN.forward(a, c) for every way of building    *)
(* one and for 2-D and 3-D inputs.                                         *)

\* largest width (input_size, hidden_size, output_size, context size) of a GRN
MaxWidth == 3

\* the GRNs that can be built: output_size 0 stands for None (the residual
\* is then the input itself, so the widths agree as in every GRN of tft.py),
\* context_hidden_size 0 for a GRN without lin_c
GRNConfigs ==
    {g \in [input_size : 1..MaxWidth, hidden_size : 2..MaxWidth,
             output_size : 0..MaxWidth, context_hidden_size : {0, MaxWidth}] :
        g.output_size = 0 => g.input_size = g.hidden_size}

\* inputs [B, input_size] and [B, T, input_size]
GRNInputs(g) ==
    {<<B, g.input_size>> : B \in Sizes(MaxB)}
    \cup {<<B, T, g.input_size>> : B \in Sizes(MaxB), T \in Sizes(MaxLen)}

\* no context, or a context [B, context_size] when the GRN takes one
GRNContexts(g, a) ==
    {NoneS} \cup (IF g.context_hidden_size # 0
                  THEN {<<a[1], g.context_hidden_size>>} ELSE {})

InitGRN ==
    /\ grn \in GRNConfigs
    /\ grn_a \in GRNInputs(grn)
    /\ grn_c \in GRNContexts(grn, grn_a)
    /\ grn_out = NoneS
    /\ grn_pc = "ready"
    /\ IdleTFT /\ IdleVSN /\ IdleAttn /\ IdleSTAD /\ IdleSOFTS /\ IdleMem /\ IdleScript
    /\ IdleDec

\* one call of GRN.forward (tft.py:62-73)
GRNCall ==
    /\ grn_pc = "ready"
    /\ grn_out' = GRNForward(grn, grn_a, grn_c)
    /\ grn_pc' = IF grn_out' = Err THEN "raised" ELSE "returned"
    /\ UNCHANGED <<grn, grn_a, grn_c>>
    /\ UNCHANGED otherThanGRN

NextGRN == GRNCall

SpecGRN == InitGRN /\ [][NextGRN]_vars

\* the shape [..., width] for an input of shape a
WithLast(a, width) == [a EXCEPT ![Len(a)] = width]

\* C7 (as claimed): for every GRN and every 2-D or 3-D input, forward
\* returns shape [..., output_size] ([..., input_size] when output_size is
\* not given), whether or not a context [B, context_size] is passed.
C7_GRNOutputShape ==
    grn_pc # "ready" =>
        /\ grn_pc = "returned"
        /\ grn_out = WithLast(grn_a, IF grn.output_size # 0 THEN grn.output_size
                                     ELSE grn.input_size)

-----------------------------------------------------------------------------
(* Exact arithmetic for softmax.  A rational is <<numerator, denominator>> *)
(* in lowest terms with a positive denominator.  exp is modelled by the    *)
(* powers of 2: like exp it is positive, strictly increasing and turns     *)
(* sums into products, and exp(-inf) = 0.                                  *)

Abs(x) == IF x < 0 THEN -x ELSE x

RECURSIVE GCD(_, _)
GCD(a, b) == IF b = 0 THEN a ELSE GCD(b, a % b)

RNorm(n, d) ==
    LET g == GCD(Abs(n), d) IN <<n \div g, d \div g>>

RAdd(p, q) == RNorm(p[1] * q[2] + q[1] * p[2], p[2] * q[2])

RMul(p, q) == RNorm(p[1] * q[1], p[2] * q[2])

\* p / q for q > 0
RDiv(p, q) == RNorm(p[1] * q[2], p[2] * q[1])

RInt(n) == <<n, 1>>

RECURSIVE Pow2(_)
Pow2(k) == IF k = 0 THEN 1 ELSE 2 * Pow2(k - 1)

\* exp of a score; the score may be -inf
Exp(l) ==
    IF l = NegInf THEN <<0, 1>>
    ELSE IF l >= 0 THEN <<Pow2(l), 1>> ELSE <<1, Pow2(-l)>>

\* the sum of a sequence of rationals
RECURSIVE RSum(_)
RSum(q) == IF Len(q) = 0 THEN <<0, 1>> ELSE RAdd(q[1], RSum(Tail(q)))

\* F.softmax of a vector of scores
Softmax(v) ==
    LET e == [i \in 1..Len(v) |-> Exp(v[i])]
        z == RSum(e)
    IN  [i \in 1..Len(v) |-> RDiv(e[i], z)]

\* softmax of a matrix m[position][variable] over the position axis
SoftmaxOverPositions(m) ==
    [r \in 1..Len(m) |-> [n \in 1..Len(m[1]) |->
        Softmax([r2 \in 1..Len(m) |-> m[r2][n]])[r]]]

\* F.softmax(grn_outputs, dim=-1): over the variable axis, position by position
SoftmaxOverVariables(m) == [r \in 1..Len(m) |-> Softmax(m[r])]

-----------------------------------------------------------------------------
(* The selection weights of a VariableSelectionNetwork.  The joint GRN's   *)
(* output is any matrix of logits, one row per (batch element, timestep)   *)
(* position and one column per variable; the weights are its softmax.      *)

\* most variables of a VSN
MaxVars == 2
\* most (batch element, timestep) positions
MaxRows == 2

LogitVals == {-1, 0, 1}

InitVSN ==
    /\ vsn_context \in BOOLEAN
    /\ \E N \in 1..MaxVars, R \in 1..MaxRows :
          grn_outputs \in [1..R -> [1..N -> LogitVals]]
    /\ sparse_weights = <<>>
    /\ vsn_pc = "ready"
    /\ IdleTFT /\ IdleGRN /\ IdleAttn /\ IdleSTAD /\ IdleSOFTS /\ IdleMem /\ IdleScript
    /\ IdleDec

\* VariableSelectionNetwork.forward, tft.py:182-183 and 193
VSNWeights ==
    /\ vsn_pc = "ready"
    /\ sparse_weights' = SoftmaxOverVariables(grn_outputs)
    /\ vsn_pc' = "returned"
    /\ UNCHANGED <<vsn_context, grn_outputs>>
    /\ UNCHANGED otherThanVSN

NextVSN == VSNWeights

SpecVSN == InitVSN /\ [][NextVSN]_vars

\* C6: for N >= 1 variables, with or without context, the selection weights
\* are non-negative and sum to 1 along the variable axis at every position;
\* for N = 1 the single weight is exactly 1.
C6_SelectionWeights ==
    vsn_pc = "returned" =>
        /\ Len(sparse_weights) = Len(grn_outputs)
        /\ \A r \in 1..Len(sparse_weights) :
              /\ Len(sparse_weights[r]) = Len(grn_outputs[r])
              /\ \A n \in 1..Len(sparse_weights[r]) :
                    sparse_weights[r][n][1] >= 0 /\ sparse_weights[r][n][2] > 0
              /\ RSum(sparse_weights[r]) = <<1, 1>>
              /\ Len(sparse_weights[r]) = 1 => sparse_weights[r][1] = <<1, 1>>

\* C6 witness: a VSN over two variables with a context returned weights
\* that differ from one another
C6_Witness ==
    /\ vsn_pc = "returned" /\ vsn_context
    /\ Len(sparse_weights[1]) = 2
    /\ sparse_weights[1][1] # sparse_weights[1][2]
    /\ RSum(sparse_weights[1]) = <<1, 1>>

-----------------------------------------------------------------------------
(* InterpretableMultiHeadAttention.forward on values.  One batch element;  *)
(* d_head = 1, so that the scale d_head ** -0.5 is exactly 1; dropout is   *)
(* the identity (eval mode, or the default rate 0).  The layer's weights   *)
(* are fixed integers: the claims checked here do not depend on them.      *)

\* most positions (example_length) of the attended sequence
MaxPos == 3

\* qkv_linears.weight, the rows of head m's query: q[i][m] = sum_f QW(m, f) * x[i][f]
QW(m, f) == IF m = f THEN 1 ELSE 0

\* qkv_linears.weight, the rows of head m's key
KW(m, f) == IF m = f THEN 1 ELSE 2

\* qkv_linears.weight, the rows of the one value projection all heads share
VW(f) == f

\* out_proj.weight, [hidden_size, d_head]
OW(f) == 2 * f - 1

\* the dot product of a weight row wv with the feature vector xv
Dot(wv, xv) ==
    LET RECURSIVE S(_)
        S(f) == IF f = 0 THEN 0 ELSE wv[f] * xv[f] + S(f - 1)
    IN  S(Len(xv))

\* a forward that forgets to add the mask
AddMask_mut(score, m) == score

\* attn_score + self._mask, one entry: anything plus -inf is -inf
AddMask(score, m) == IF m = NegInf THEN NegInf ELSE score + m

\* InterpretableMultiHeadAttention.forward (tft.py:217-248) for the input
\* x[position][feature]: attn_prob[head][i][j], attn_vec[head][i] and
\* out[position][feature]
AttentionForward(att, x, mask_future_timesteps) ==
    LET T == Len(x)
        M == att.n_head
        H == att.hidden_size
        q(i, m) == Dot([f \in 1..H |-> QW(m, f)], x[i])
        k(j, m) == Dot([f \in 1..H |-> KW(m, f)], x[j])
        v(j) == Dot([f \in 1..H |-> VW(f)], x[j])
        attn_score(m, i, j) ==
            IF mask_future_timesteps
            THEN AddMask(q(i, m) * k(j, m), att.mask[i][j])
            ELSE q(i, m) * k(j, m)
        prob == [m \in 1..M |-> [i \in 1..T |->
                    Softmax([j \in 1..T |-> attn_score(m, i, j)])]]
        vec == [m \in 1..M |-> [i \in 1..T |->
                    RSum([j \in 1..T |-> RMul(prob[m][i][j], RInt(v(j)))])]]
        m_attn_vec == [i \in 1..T |->
                    RDiv(RSum([m \in 1..M |-> vec[m][i]]), RInt(M))]
    IN  [attn_prob |-> prob,
         attn_vec |-> vec,
         out |-> [i \in 1..T |-> [f \in 1..att.hidden_size |->
                    RMul(RInt(OW(f)), m_attn_vec[i])]]]

\* feature vectors of width H
XVecs(H) == [1..H -> {0, 1}]

\* a layer with n_head heads of width 1 over L positions, and two inputs
\* that differ in at most one position
InitAttn ==
    /\ \E n \in {1, 2}, L \in 2..MaxPos :
          /\ attn = AttentionInit(n, n, L)
          /\ \E x \in [1..L -> XVecs(n)], j \in 1..L, xj \in XVecs(n) :
                attn_x = <<x, [x EXCEPT ![j] = xj]>>
    /\ attn_prob = <<>>
    /\ attn_out = <<>>
    /\ attn_pc = "ready"
    /\ IdleTFT /\ IdleGRN /\ IdleVSN /\ IdleSTAD /\ IdleSOFTS /\ IdleMem /\ IdleScript
    /\ IdleDec

\* forward on each of the two inputs, called the way TemporalFusionDecoder
\* calls it (tft.py:354): mask_future_timesteps=True
AttnForward ==
    /\ attn_pc = "ready"
    /\ LET r1 == AttentionForward(attn, attn_x[1], TRUE)
           r2 == AttentionForward(attn, attn_x[2], TRUE)
       IN  /\ attn_prob' = <<r1.attn_prob, r2.attn_prob>>
           /\ attn_out' = <<r1.out, r2.out>>
    /\ attn_pc' = "returned"
    /\ UNCHANGED <<attn, attn_x>>
    /\ UNCHANGED otherThanAttn

NextAttn == AttnForward

SpecAttn == InitAttn /\ [][NextAttn]_vars

\* C2: the registered mask is -inf at (i, j) exactly when j > i and 0
\* elsewhere; it reaches every head's scores before the softmax (no head
\* gives weight to a later position); and the output at position i is the
\* same for two inputs that agree on positions 1..i, whatever they hold at
\* later positions.
C2_CausalMask ==
    /\ attn_pc # "idle" =>
          \A i, j \in 1..attn.example_length :
              attn.mask[i][j] = (IF j > i THEN NegInf ELSE 0)
    /\ attn_pc = "returned" =>
          /\ \A r \in 1..2, m \in 1..attn.n_head, i, j \in 1..attn.example_length :
                j > i => attn_prob[r][m][i][j] = <<0, 1>>
          /\ \A i \in 1..attn.example_length :
                (\A j \in 1..i : attn_x[1][j] = attn_x[2][j])
                    => attn_out[1][i] = attn_out[2][i]

\* C2 witness: two inputs that differ only at the last position give the
\* same output before it and a different output at it
C2_Witness ==
    /\ attn_pc = "returned" /\ attn.n_head = 2
    /\ LET L == attn.example_length
       IN  /\ attn_x[1][L] # attn_x[2][L]
           /\ \A j \in 1..(L - 1) : attn_x[1][j] = attn_x[2][j]
           /\ attn_out[1][L] # attn_out[2][L]
           /\ \A i \in 1..(L - 1) : attn_out[1][i] = attn_out[2][i]

-----------------------------------------------------------------------------
(* STAD.forward.  The feed-forward gen2(gelu(gen1(input))) is a fixed      *)
(* function of the input and the parameters; the model starts from its     *)
(* result, the core values combined_mean[batch][channel][core dimension],  *)
(* and follows the pooling branch on them.  The fusion MLP after the       *)
(* branch is again a fixed function of the input and the dispatched core.  *)

\* most channels (series) of the STAD input
MaxChannels == 2

\* most forward calls on one input
MaxCalls == 2

\* the core values the feed-forward may produce
CoreVals == {-1, 1}

\* [batch_size, d_core] of the inputs considered
StadShapes == {<<1, 1>>, <<2, 1>>, <<1, 2>>}

\* a core value that is NaN, and NaN as an entry of a result
NaN == 99

NaNR == <<0, 0>>

\* the shapes on which inputs with NaN core values are considered too
NaNShapes == {<<1, 1>>}

HasNaN(v) == \E i \in 1..Len(v) : v[i] = NaN

\* a core value as an entry of a result
CoreR(x) == IF x = NaN THEN NaNR ELSE RInt(x)

\* F.softmax of a vector of floats: one NaN makes every weight NaN
SoftmaxF(v) == IF HasNaN(v) THEN [i \in 1..Len(v) |-> NaNR] ELSE Softmax(v)

\* torch.nan_to_num (softs.py:61): NaN becomes 0
NanToNum(t) ==
    [b \in 1..Len(t) |-> [c \in 1..Len(t[1]) |-> [d \in 1..Len(t[1][1]) |->
        IF t[b][c][d] = NaN THEN 0 ELSE t[b][c][d]]]]

NoCall ==
    [training |-> FALSE, branch |-> "none", logits |-> <<>>, indices |-> <<>>, out |-> <<>>]

\* softmax over the core axis instead
SoftmaxDim1_mut(t) ==
    [b \in 1..Len(t) |-> [c \in 1..Len(t[1]) |-> SoftmaxF(t[b][c])]]

\* F.softmax(t, dim=1) of t[batch][channel][core dim]: over the channel axis
SoftmaxDim1(t) ==
    [b \in 1..Len(t) |-> [c \in 1..Len(t[1]) |-> [d \in 1..Len(t[1][1]) |->
        SoftmaxF([c2 \in 1..Len(t[1]) |-> t[b][c2][d]])[c]]]]

\* the eval branch (softs.py:68-72): sum(combined_mean * weight, dim=1,
\* keepdim=True).repeat(1, channels, 1)
WeightedDispatch(combined_mean) ==
    LET channels == Len(combined_mean[1])
        weight == SoftmaxDim1(combined_mean)
    IN  [b \in 1..Len(combined_mean) |-> [c \in 1..channels |->
            [d \in 1..Len(combined_mean[1][1]) |->
                IF \E c2 \in 1..channels : weight[b][c2][d] = NaNR
                THEN NaNR
                ELSE RSum([c2 \in 1..channels |->
                        RMul(RInt(combined_mean[b][c2][d]), weight[b][c2][d])])]]]

\* ratio.permute(0, 2, 1).reshape(-1, channels) (softs.py:62-63): one row
\* per (batch, core dim), batch-major, holding the weights of the channels
RatioRows(ratio) ==
    LET D == Len(ratio[1][1])
    IN  [r \in 1..(Len(ratio) * D) |-> [c \in 1..Len(ratio[1]) |->
            ratio[((r - 1) \div D) + 1][c][((r - 1) % D) + 1]]]

\* the draws torch.multinomial(ratio, 1) can make (softs.py:64): for every
\* row one channel of positive probability
Multinomial(rows) ==
    {ix \in [1..Len(rows) -> 1..Len(rows[1])] :
        \A r \in 1..Len(rows) : rows[r][ix[r]][1] > 0}

\* indices.view(batch_size, -1, 1).permute(0, 2, 1) (softs.py:65), as
\* indices[batch][core dim]
IndicesView(ix, batch_size) ==
    LET D == Len(ix) \div batch_size
    IN  [b \in 1..batch_size |-> [d \in 1..D |-> ix[(b - 1) * D + d]]]

\* one draw per batch item, used for every core dimension
SampledDispatch_mut(combined_mean, indices) ==
    [b \in 1..Len(combined_mean) |-> [c \in 1..Len(combined_mean[1]) |->
        [d \in 1..Len(combined_mean[1][1]) |->
            CoreR(combined_mean[b][indices[b][1]][d])]]]

\* torch.gather(combined_mean, 1, indices).repeat(1, channels, 1)
\* (softs.py:66-67) for the drawn indices[batch][core dim]
SampledDispatch(combined_mean, indices) ==
    [b \in 1..Len(combined_mean) |-> [c \in 1..Len(combined_mean[1]) |->
        [d \in 1..Len(combined_mean[1][1]) |->
            CoreR(combined_mean[b][indices[b][d]][d])]]]

\* a freshly constructed module (training mode) and one input's core values
InitSTAD ==
    /\ \E bd \in StadShapes, channels \in 1..MaxChannels :
          stad_core \in [1..bd[1] -> [1..channels -> [1..bd[2] ->
                            IF bd \in NaNShapes THEN CoreVals \cup {NaN} ELSE CoreVals]]]
    /\ stad_training = TRUE
    /\ stad_prev = NoCall
    /\ stad_last = NoCall
    /\ stad_ncalls = 0
    /\ stad_pc = "ready"
    /\ IdleTFT /\ IdleGRN /\ IdleVSN /\ IdleAttn /\ IdleSOFTS /\ IdleMem /\ IdleScript
    /\ IdleDec

\* module.train() / module.eval()
STADSetTraining ==
    /\ stad_pc = "ready"
    /\ stad_training' = ~stad_training
    /\ UNCHANGED <<stad_core, stad_prev, stad_last, stad_ncalls, stad_pc>>
    /\ UNCHANGED otherThanSTAD

\* STAD.forward in training mode
STADForwardTraining ==
    /\ stad_pc = "ready" /\ stad_ncalls < MaxCalls
    /\ stad_training
    /\ \E logits \in {NanToNum(stad_core)} :
       \E ix \in Multinomial(RatioRows(SoftmaxDim1(logits))) :
       \E indices \in {IndicesView(ix, Len(stad_core))} :
          stad_last' = [training |-> TRUE, branch |-> "sample", logits |-> logits,
                        indices |-> indices,
                        out |-> SampledDispatch(stad_core, indices)]
    /\ stad_prev' = stad_last
    /\ stad_ncalls' = stad_ncalls + 1
    /\ UNCHANGED <<stad_core, stad_training, stad_pc>>
    /\ UNCHANGED otherThanSTAD

\* STAD.forward in eval mode
STADForwardEval ==
    /\ stad_pc = "ready" /\ stad_ncalls < MaxCalls
    /\ ~stad_training
    /\ stad_last' = [training |-> FALSE, branch |-> "weighted", logits |-> stad_core,
                     indices |-> <<>>,
                     out |-> WeightedDispatch(stad_core)]
    /\ stad_prev' = stad_last
    /\ stad_ncalls' = stad_ncalls + 1
    /\ UNCHANGED <<stad_core, stad_training, stad_pc>>
    /\ UNCHANGED otherThanSTAD

NextSTAD == STADSetTraining \/ STADForwardTraining \/ STADForwardEval

SpecSTAD == InitSTAD /\ [][NextSTAD]_vars

\* the weighted mean of a column of core values, from first principles:
\* r = <<n, dn>> is it iff n * sum_c 2^(v_c + 1) = dn * sum_c v_c * 2^(v_c + 1)
IsWeightedMean(r, col) ==
    LET RECURSIVE Z(_), S(_)
        Z(c) == IF c = 0 THEN 0 ELSE Pow2(col[c] + 1) + Z(c - 1)
        S(c) == IF c = 0 THEN 0 ELSE col[c] * Pow2(col[c] + 1) + S(c - 1)
    IN  r[1] * Z(Len(col)) = r[2] * S(Len(col))

\* the calls on record
StadCalls == {r \in {stad_prev, stad_last} : r.branch # "none"}

\* C9: an eval-mode call takes the weighted-sum branch, and what it
\* dispatches to every channel is, per (batch, core dimension), the sum
\* over channels of core value times softmax weight over the channel axis;
\* two eval-mode calls on the same input return the same; a training-mode
\* call takes the sampling branch and never the weighted-sum branch.
C9_EvalDeterministic ==
    stad_pc = "ready" =>
        /\ \A r \in StadCalls :
              /\ r.training => r.branch = "sample"
              /\ ~r.training =>
                    /\ r.branch = "weighted"
                    /\ \A b \in 1..Len(stad_core), c \in 1..Len(stad_core[1]),
                          d \in 1..Len(stad_core[1][1]) :
                          IF HasNaN([c2 \in 1..Len(stad_core[1]) |-> stad_core[b][c2][d]])
                          THEN r.out[b][c][d] = NaNR
                          ELSE IsWeightedMean(r.out[b][c][d],
                                   [c2 \in 1..Len(stad_core[1]) |-> stad_core[b][c2][d]])
        /\ \A r1, r2 \in StadCalls :
              (~r1.training /\ ~r2.training) => r1.out = r2.out

\* C9 witness: a training call and then an eval call on an input whose
\* channels differ; the two results differ
C9_Witness ==
    /\ stad_pc = "ready" /\ stad_ncalls = 2
    /\ stad_prev.training /\ stad_prev.branch = "sample"
    /\ ~stad_last.training /\ stad_last.branch = "weighted"
    /\ Len(stad_core[1]) = 2 /\ stad_core[1][1] # stad_core[1][2]
    /\ stad_prev.out # stad_last.out

-----------------------------------------------------------------------------
(* SOFTS.forecast and SOFTS.forward.  The standard deviation is a square   *)
(* root; a tensor entry is kept in the exact form k * sqrt(v)^e + m with   *)
(* rationals k, v, m and e in {-1, 0, 1} (e = 0 is a plain rational k).    *)

\* the values of an input window
XVals == {0, 1}

\* [batch size, n_series] of the windows considered
SoftsShapes == {<<1, 1>>, <<2, 1>>, <<1, 2>>}

\* a variance with no floor under the square root
Eps_mut == <<0, 1>>

\* the 1e-5 under the square root (softs.py:237)
Eps == <<1, 100000>>

RSub(p, q) == RAdd(p, <<-q[1], q[2]>>)

SymRat(r) == [k |-> r, e |-> 0, v |-> <<1, 1>>, m |-> <<0, 1>>]

\* normal form: a vanished coefficient leaves the rational part
SymNorm(s) ==
    IF s.e = 0 THEN SymRat(RAdd(s.k, s.m))
    ELSE IF s.k[1] = 0 THEN SymRat(s.m)
    ELSE s

\* what a division by zero leaves: NaN (0 / 0) or +/-Inf
NanInf == [k |-> <<0, 1>>, e |-> -2, v |-> <<0, 1>>, m |-> <<0, 1>>]

\* s / sqrt(v) for a plain rational s
SymDivStdev(s, v) ==
    IF v[1] = 0 THEN NanInf
    ELSE SymNorm([k |-> s.k, e |-> -1, v |-> v, m |-> <<0, 1>>])

\* s * sqrt(v); a product this form cannot hold is marked e = 2
SymMulStdev(s, v) ==
    IF s.e = 0 THEN SymNorm([k |-> s.k, e |-> 1, v |-> v, m |-> <<0, 1>>])
    ELSE IF s.e = -1 /\ s.v = v /\ s.m[1] = 0 THEN SymRat(s.k)
    ELSE [k |-> s.k, e |-> 2, v |-> v, m |-> s.m]

\* s + r for a rational r
SymAdd(s, r) == SymNorm([s EXCEPT !.m = RAdd(s.m, r)])

\* x_enc[b, :, n] as rationals
Window(x_enc, b, n) == [t \in 1..Len(x_enc[1]) |-> RInt(x_enc[b][t][n])]

\* x.mean(1, keepdim=True) at one (batch item, series): the mean of the
\* window col
MeanDim1(col) == RDiv(RSum(col), RInt(Len(col)))

\* torch.var(x, dim=1, keepdim=True, unbiased=False) at one (batch item,
\* series)
VarDim1(col) ==
    LET mu == MeanDim1(col)
    IN  RDiv(RSum([t \in 1..Len(col) |->
                 RMul(RSub(col[t], mu), RSub(col[t], mu))]), RInt(Len(col)))

NoStats == [means |-> <<>>, sd2 |-> <<>>]

\* the normalization (softs.py:233-238): means, the centred x_enc, stdev
\* (kept as its square) and the divided x_enc
Normalize(x_enc) ==
    LET B == Len(x_enc)
        N == Len(x_enc[1][1])
        means == [b \in 1..B |-> [n \in 1..N |-> MeanDim1(Window(x_enc, b, n))]]
        centred == [b \in 1..B |-> [n \in 1..N |-> [t \in 1..Len(x_enc[1]) |->
                      RSub(RInt(x_enc[b][t][n]), means[b][n])]]]
        sd2 == [b \in 1..B |-> [n \in 1..N |-> RAdd(VarDim1(centred[b][n]), Eps)]]
    IN  [stats |-> [means |-> means, sd2 |-> sd2],
         x_enc |-> [b \in 1..B |-> [t \in 1..Len(x_enc[1]) |-> [n \in 1..N |->
                      SymDivStdev(SymRat(centred[b][n][t]), sd2[b][n])]]]]

\* x_enc as forecast hands it on when use_norm is off
Plain(x_enc) ==
    [b \in 1..Len(x_enc) |-> [t \in 1..Len(x_enc[1]) |->
        [n \in 1..Len(x_enc[1][1]) |-> SymRat(RInt(x_enc[b][t][n]))]]]

\* enc_embedding, encoder and projection, then permute(0, 2, 1)[:, :, :N]
\* (softs.py:240-243): a fixed function of its input and the weights whose
\* values are of no concern here; as a stand-in, entry [b][r][n] of the
\* [B, rows, N] result is a number of its own, shifted by w
Network(enc_in, rows, w) ==
    LET N == Len(enc_in[1][1])
    IN  [b \in 1..Len(enc_in) |-> [r \in 1..rows |-> [n \in 1..N |->
            w + (r - 1) + rows * (n - 1) + rows * N * (b - 1)]]]

\* the statistics of the first series for every series
Denormalize_mut(dec_out, stats) ==
    [b \in 1..Len(dec_out) |-> [r \in 1..Len(dec_out[1]) |->
        [n \in 1..Len(dec_out[1][1]) |->
            SymAdd(SymMulStdev(SymRat(RInt(dec_out[b][r][n])), stats.sd2[b][1]),
                   stats.means[b][1])]]]

\* the de-normalization (softs.py:246-257)
Denormalize(dec_out, stats) ==
    [b \in 1..Len(dec_out) |-> [r \in 1..Len(dec_out[1]) |->
        [n \in 1..Len(dec_out[1][1]) |->
            SymAdd(SymMulStdev(SymRat(RInt(dec_out[b][r][n])), stats.sd2[b][n]),
                   stats.means[b][n])]]]

\* a reshape that walks y_pred series by series instead of row by row
Reshape_mut(y_pred, h) ==
    LET rows == Len(y_pred[1])
        N == Len(y_pred[1][1])
        cols == (rows * N) \div h
        flat(b, i) == y_pred[b][(i % rows) + 1][(i \div rows) + 1]
    IN  [b \in 1..Len(y_pred) |-> [t \in 1..h |-> [j \in 1..cols |->
            flat(b, (t - 1) * cols + (j - 1))]]]

\* y_pred.reshape(B, h, -1) of y_pred[batch][row][series] (softs.py:264)
Reshape(y_pred, h) ==
    LET rows == Len(y_pred[1])
        N == Len(y_pred[1][1])
        cols == (rows * N) \div h
        flat(b, i) == y_pred[b][(i \div N) + 1][(i % N) + 1]
    IN  [b \in 1..Len(y_pred) |-> [t \in 1..h |-> [j \in 1..cols |->
            flat(b, (t - 1) * cols + (j - 1))]]]

\* a model and the caller's batch
InitSOFTS ==
    /\ \E h \in Sizes(MaxLen), om \in Sizes(MaxOut), use_norm \in BOOLEAN :
          softs_cfg = [h |-> h, outputsize_multiplier |-> om, use_norm |-> use_norm]
    /\ \E bn \in SoftsShapes, input_size \in Sizes(MaxLen) :
          softs_batch \in [1..bn[1] -> [1..input_size -> [1..bn[2] -> XVals]]]
    /\ softs_enc_in = <<>>
    /\ softs_stats = NoStats
    /\ softs_dec = <<>>
    /\ softs_out = <<>>
    /\ softs_y_pred = <<>>
    /\ softs_pc = "ready"
    /\ IdleTFT /\ IdleGRN /\ IdleVSN /\ IdleAttn /\ IdleSTAD /\ IdleMem /\ IdleScript
    /\ IdleDec

\* forecast's three stages, each evaluated once: the (possibly normalised)
\* x_enc with its statistics, the network's dec_out, the returned dec_out
ForecastInput(use_norm, x_enc) ==
    IF use_norm THEN Normalize(x_enc) ELSE [stats |-> NoStats, x_enc |-> Plain(x_enc)]

ForecastOutput(use_norm, dec_out, stats) ==
    IF use_norm THEN Denormalize(dec_out, stats)
    ELSE [b \in 1..Len(dec_out) |-> [r \in 1..Len(dec_out[1]) |->
            [n \in 1..Len(dec_out[1][1]) |-> SymRat(RInt(dec_out[b][r][n]))]]]

\* SOFTS.forward (softs.py:260-266), forecast included
SOFTSForward ==
    /\ softs_pc = "ready"
    /\ \E w \in {1, 2} :
       \E inp \in {ForecastInput(softs_cfg.use_norm, softs_batch)} :
       \E dec_out \in {Network(inp.x_enc,
                               softs_cfg.h * softs_cfg.outputsize_multiplier, w)} :
       \E result \in {ForecastOutput(softs_cfg.use_norm, dec_out, inp.stats)} :
          /\ softs_enc_in' = inp.x_enc
          /\ softs_stats' = inp.stats
          /\ softs_dec' = dec_out
          /\ softs_out' = result
          /\ softs_y_pred' = Reshape(result, softs_cfg.h)
    /\ softs_pc' = "returned"
    /\ UNCHANGED <<softs_cfg, softs_batch>>
    /\ UNCHANGED otherThanSOFTS

NextSOFTS == SOFTSForward

SpecSOFTS == InitSOFTS /\ [][NextSOFTS]_vars

\* sum over the window of x[b][t][n] and of its square
WindowSum(b, n) ==
    LET RECURSIVE S(_)
        S(t) == IF t = 0 THEN 0 ELSE softs_batch[b][t][n] + S(t - 1)
    IN  S(Len(softs_batch[1]))

WindowSumSq(b, n) ==
    LET RECURSIVE S(_)
        S(t) == IF t = 0 THEN 0
                ELSE softs_batch[b][t][n] * softs_batch[b][t][n] + S(t - 1)
    IN  S(Len(softs_batch[1]))

\* the mean of series n of batch item b over the input window
WindowMean(b, n) == RNorm(WindowSum(b, n), Len(softs_batch[1]))

\* its variance plus 1e-5: (L * sum x^2 - (sum x)^2) / L^2 + 1 / 100000
WindowSd2(b, n) ==
    LET L == Len(softs_batch[1])
    IN  RNorm(100000 * (L * WindowSumSq(b, n) - WindowSum(b, n) * WindowSum(b, n)) + L * L,
              100000 * L * L)

\* C10: with use_norm the statistics are one mean and one standard
\* deviation per (batch item, series), taken over the input window; the
\* encoder's input is (x - mean) / stdev; each of the h * outputsize_multiplier
\* rows of a series' output is row * stdev + mean with those statistics, and
\* that map undoes the input's normalization; without use_norm the input
\* and the output are left as they are.
C10_ReversibleNorm ==
    softs_pc = "returned" =>
        LET B == Len(softs_batch)
            L == Len(softs_batch[1])
            N == Len(softs_batch[1][1])
            rows == softs_cfg.h * softs_cfg.outputsize_multiplier
        IN  /\ Len(softs_out) = B
            /\ \A b \in 1..B : Len(softs_out[b]) = rows
            /\ \A b \in 1..B, r \in 1..rows : Len(softs_out[b][r]) = N
            /\ softs_cfg.use_norm =>
                  \A b \in 1..B, n \in 1..N :
                      /\ softs_stats.means[b][n] = WindowMean(b, n)
                      /\ softs_stats.sd2[b][n] = WindowSd2(b, n)
                      /\ \A t \in 1..L :
                            /\ softs_enc_in[b][t][n] =
                                  (IF L * softs_batch[b][t][n] = WindowSum(b, n)
                                   THEN SymRat(<<0, 1>>)
                                   ELSE [k |-> RNorm(L * softs_batch[b][t][n] - WindowSum(b, n), L),
                                         e |-> -1, v |-> WindowSd2(b, n), m |-> <<0, 1>>])
                            /\ SymAdd(SymMulStdev(softs_enc_in[b][t][n], softs_stats.sd2[b][n]),
                                      softs_stats.means[b][n])
                                  = SymRat(<<softs_batch[b][t][n], 1>>)
                      /\ \A r \in 1..rows :
                            softs_out[b][r][n] =
                                [k |-> <<softs_dec[b][r][n], 1>>, e |-> 1,
                                 v |-> WindowSd2(b, n), m |-> WindowMean(b, n)]
            /\ ~softs_cfg.use_norm =>
                  /\ softs_stats = NoStats
                  /\ \A b \in 1..B, n \in 1..N :
                        /\ \A t \in 1..L :
                              softs_enc_in[b][t][n] = SymRat(<<softs_batch[b][t][n], 1>>)
                        /\ \A r \in 1..rows :
                              softs_out[b][r][n] = SymRat(<<softs_dec[b][r][n], 1>>)

\* C10 witness: a normalised forecast of two series of different means and
\* deviations, several output rows per series
C10_Witness ==
    /\ softs_pc = "returned" /\ softs_cfg.use_norm
    /\ Len(softs_batch[1][1]) = 2 /\ Len(softs_batch[1]) >= 2
    /\ softs_cfg.h * softs_cfg.outputsize_multiplier >= 2
    /\ softs_stats.means[1][1] # softs_stats.means[1][2]
    /\ softs_stats.sd2[1][1] # softs_stats.sd2[1][2]
    /\ softs_enc_in[1][1][1].e = -1
    /\ softs_out[1][2][2].e = 1

\* the window of series n of batch item b is constant
ConstantWindow(b, n) ==
    \A t \in 1..Len(softs_batch[1]) : softs_batch[b][t][n] = softs_batch[b][1][n]

NewOp(line, dst, st, reads) ==
    [line |-> line, op |-> "new", dst |-> dst, st |-> st, reads |-> reads]

ViewOp(line, dst, src) ==
    [line |-> line, op |-> "view", dst |-> dst, st |-> <<>>, reads |-> <<src>>]

InPlaceOp(line, dst, reads) ==
    [line |-> line, op |-> "inplace", dst |-> dst, st |-> <<>>, reads |-> reads]

\* nn.Dropout(p): a new tensor in training mode, its input itself otherwise.
DropoutOp(line, dst, st, src, training) ==
    IF training THEN NewOp(line, dst, st, <<src>>) ELSE ViewOp(line, dst, src)

\* nn.Linear: reads its weight (and bias), returns a new tensor.
LinearOp(line, dst, st, src, lin, bias) ==
    NewOp(line, dst, st,
          IF bias THEN <<src, <<lin[1], lin[2] \o ".weight">>, <<lin[1], lin[2] \o ".bias">> >>
                  ELSE <<src, <<lin[1], lin[2] \o ".weight">> >>)

\* GLU.forward, tft.py 36-39, called as g.<glu>(x) with the result bound to dst.
GLUProg(g, glu, x, dst) ==
    << LinearOp(37, <<g, glu \o ".x">>, <<g, glu \o ".x@37">>, x, <<g, glu \o ".lin">>, TRUE),
       NewOp(38, <<g, glu \o ".x">>, <<g, glu \o ".x@38">>, << <<g, glu \o ".x">> >>),
       ViewOp(39, dst, <<g, glu \o ".x">>) >>

\* GRN.forward, tft.py 62-73, of the GRN named g, called with input a and
\* context c (<<>> for None); the result is bound to dst.
GRNProg(g, a, c, dst, has_out_proj, identity_ln, training) ==
    << LinearOp(63, <<g, "x">>, <<g, "x@63">>, a, <<g, "lin_a">>, TRUE) >>
    \o (IF c = <<>> THEN <<>>
        ELSE << LinearOp(65, <<g, "lin_c(c)">>, <<g, "lin_c(c)@65">>, c, <<g, "lin_c">>, FALSE),
                ViewOp(65, <<g, "lin_c(c).unsqueeze(1)">>, <<g, "lin_c(c)">>),
                NewOp(65, <<g, "x">>, <<g, "x@65">>,
                      << <<g, "x">>, <<g, "lin_c(c).unsqueeze(1)">> >>) >>)
    \o << NewOp(66, <<g, "x">>, <<g, "x@66">>, << <<g, "x">> >>),
          LinearOp(67, <<g, "x">>, <<g, "x@67">>, <<g, "x">>, <<g, "lin_i">>, TRUE),
          DropoutOp(68, <<g, "x">>, <<g, "x@68">>, <<g, "x">>, training) >>
    \o GLUProg(g, "glu", <<g, "x">>, <<g, "x">>)
    \o << IF has_out_proj
            THEN LinearOp(70, <<g, "y">>, <<g, "y@70">>, a, <<g, "out_proj">>, TRUE)
            ELSE ViewOp(70, <<g, "y">>, a),
          NewOp(71, <<g, "x">>, <<g, "x@71">>, << <<g, "x">>, <<g, "y">> >>),
          IF identity_ln
            THEN ViewOp(72, <<g, "x">>, <<g, "x">>)
            ELSE NewOp(72, <<g, "x">>, <<g, "x@72">>,
                       << <<g, "x">>, <<g, "layer_norm.weight">>, <<g, "layer_norm.bias">> >>),
          ViewOp(73, dst, <<g, "x">>) >>

\* VariableSelectionNetwork.forward, tft.py 180-193, of the network named v
\* with num_inputs variables; var_grns[i] is the GRN named v.var_grns.i.
RECURSIVE VarGRNsProg(_, _, _, _)
VarGRNsProg(v, x, i, training) ==
    IF i = 0 THEN <<>>
    ELSE VarGRNsProg(v, x, i - 1, training)
         \o << ViewOp(184, <<v, "x[..., i, :]">>, x) >>
         \o GRNProg(v \o ".var_grns." \o ToString(i - 1), <<v, "x[..., i, :]">>, <<>>,
                    <<v, "transformed_embed_list." \o ToString(i - 1)>>,
                    FALSE, FALSE, training)

VarGRNsOutputs(v, num_inputs) ==
    [i \in 1..num_inputs |-> <<v, "transformed_embed_list." \o ToString(i - 1)>>]

VSNProg(v, x, context, dst, num_inputs, training) ==
    << ViewOp(181, <<v, "Xi">>, x) >>
    \o GRNProg(v \o ".joint_grn", <<v, "Xi">>, context, <<v, "grn_outputs">>,
               TRUE, num_inputs = 1, training)
    \o << NewOp(183, <<v, "sparse_weights">>, <<v, "sparse_weights@183">>,
                << <<v, "grn_outputs">> >>) >>
    \o VarGRNsProg(v, x, num_inputs, training)
    \o << NewOp(185, <<v, "transformed_embed">>, <<v, "transformed_embed@185">>,
                VarGRNsOutputs(v, num_inputs)),
          ViewOp(190, <<v, "sparse_weights.unsqueeze(-1)">>, <<v, "sparse_weights">>),
          NewOp(189, <<v, "variable_ctx">>, <<v, "variable_ctx@189">>,
                << <<v, "transformed_embed">>, <<v, "sparse_weights.unsqueeze(-1)">> >>),
          ViewOp(191, <<v, "variable_ctx">>, <<v, "variable_ctx">>),
          ViewOp(193, dst, <<v, "variable_ctx">>) >>

\* TFTEmbedding._apply_embedding, tft.py 111-126, for the input named kind
\* ("stat_exog", "futr_exog" or "hist_exog"); None gives None (no operation).
ApplyEmbeddingProg(kind, cont, dst, present) ==
    IF ~present THEN <<>>
    ELSE << ViewOp(122, <<"embedding", kind \o ".unsqueeze(-1)">>, cont),
            NewOp(122, <<"embedding", kind \o ".e_cont">>, <<"embedding", kind \o ".e_cont@122">>,
                  << <<"embedding", kind \o ".unsqueeze(-1)">>,
                     <<"embedding", kind \o "_embedding_vectors">> >>),
            NewOp(123, <<"embedding", kind \o ".e_cont">>, <<"embedding", kind \o ".e_cont@123">>,
                  << <<"embedding", kind \o ".e_cont">>,
                     <<"embedding", kind \o "_embedding_bias">> >>),
            ViewOp(124, dst, <<"embedding", kind \o ".e_cont">>) >>

\* TFTEmbedding.forward, tft.py 128-161.
EmbeddingProg(has_stat, has_hist) ==
    (IF has_stat
       THEN << ViewOp(134, <<"embedding", "stat_exog">>, <<"forward", "stat_exog">>) >>
       ELSE <<>>)
    \o ApplyEmbeddingProg("stat_exog", <<"embedding", "stat_exog">>, <<"forward", "s_inp">>, has_stat)
    \o ApplyEmbeddingProg("futr_exog", <<"forward", "futr_exog">>, <<"forward", "k_inp">>, TRUE)
    \o ApplyEmbeddingProg("hist_exog", <<"forward", "hist_exog">>, <<"forward", "o_inp">>, has_hist)
    \o << ViewOp(156, <<"embedding", "target_inp.unsqueeze">>, <<"forward", "y_insample">>),
          ViewOp(157, <<"embedding", "tgt_embedding_vectors.unsqueeze(1)">>,
                 <<"embedding", "tgt_embedding_vectors">>),
          NewOp(155, <<"embedding", "target_inp">>, <<"embedding", "target_inp@155">>,
                << <<"embedding", "target_inp.unsqueeze">>,
                   <<"embedding", "tgt_embedding_vectors.unsqueeze(1)">> >>),
          ViewOp(158, <<"embedding", "target_inp">>, <<"embedding", "target_inp">>),
          NewOp(159, <<"embedding", "target_inp">>, <<"embedding", "target_inp@159">>,
                << <<"embedding", "target_inp">>, <<"embedding", "tgt_embedding_bias">> >>),
          ViewOp(161, <<"forward", "t_observed_tgt">>, <<"embedding", "target_inp">>) >>

\* StaticCovariateEncoder.forward, tft.py 264-274, and the unsqueeze of
\* TFT.forward line 567.
ContextNames == <<"cs", "ce", "ch", "cc">>

RECURSIVE ContextGRNsProg(_, _)
ContextGRNsProg(i, training) ==
    IF i = 0 THEN <<>>
    ELSE ContextGRNsProg(i - 1, training)
         \o GRNProg("static_encoder.context_grns." \o ToString(i - 1),
                    <<"static_encoder", "variable_ctx">>, <<>>,
                    <<"forward", ContextNames[i]>>, FALSE, FALSE, training)

StaticEncoderProg(num_static_vars, training) ==
    VSNProg("static_encoder.vsn", <<"forward", "s_inp">>, <<>>,
            <<"static_encoder", "variable_ctx">>, num_static_vars, training)
    \o ContextGRNsProg(4, training)
    \o << ViewOp(567, <<"forward", "ch">>, <<"forward", "ch">>),
          ViewOp(567, <<"forward", "cc">>, <<"forward", "cc">>) >>

\* TFT.forward lines 570-578: the four zero contexts.
ZeroContextsProg ==
    << NewOp(571, <<"forward", "cs">>, <<"forward", "cs@571">>, <<>>),
       NewOp(572, <<"forward", "ce">>, <<"forward", "ce@572">>, <<>>),
       NewOp(573, <<"forward", "ch">>, <<"forward", "ch@573">>, <<>>),
       NewOp(576, <<"forward", "cc">>, <<"forward", "cc@576">>, <<>>) >>

\* nn.LSTM called at tft.py 302 and 305: reads its weights, the input and the
\* initial state, returns a new output and a new state.
LSTMProg(line, lstm, input, h0, c0, out, state_out) ==
    << NewOp(line, out, <<"temporal_encoder", lstm \o ".output@" \o ToString(line)>>,
             <<input, h0, c0,
               <<"temporal_encoder", lstm \o ".weight_ih_l0">>,
               <<"temporal_encoder", lstm \o ".weight_hh_l0">>,
               <<"temporal_encoder", lstm \o ".bias_ih_l0">>,
               <<"temporal_encoder", lstm \o ".bias_hh_l0">> >>),
       NewOp(line, <<state_out[1], state_out[2] \o ".h">>,
             <<"temporal_encoder", lstm \o ".h_n@" \o ToString(line)>>, <<out>>),
       NewOp(line, <<state_out[1], state_out[2] \o ".c">>,
             <<"temporal_encoder", lstm \o ".c_n@" \o ToString(line)>>, <<out>>) >>

\* a future VSN that is given the enrichment context
VSNContext_mut(vsn) == IF vsn = "future_vsn" THEN <<"forward", "ce">> ELSE <<"forward", "cs">>

\* the context passed to self.history_vsn and self.future_vsn, tft.py 301 and 304
VSNContext(vsn) == <<"forward", "cs">>

\* TemporalCovariateEncoder.forward, tft.py 299-313.
TemporalEncoderProg(num_historic_vars, num_future_vars, training) ==
    VSNProg("temporal_encoder.history_vsn", <<"forward", "historical_inputs">>,
            VSNContext("history_vsn"),
            <<"temporal_encoder", "historical_features">>, num_historic_vars, training)
    \o LSTMProg(302, "history_encoder", <<"temporal_encoder", "historical_features">>,
                <<"forward", "ch">>, <<"forward", "cc">>,
                <<"temporal_encoder", "history">>, <<"temporal_encoder", "state">>)
    \o VSNProg("temporal_encoder.future_vsn", <<"forward", "future_inputs">>,
               VSNContext("future_vsn"),
               <<"temporal_encoder", "future_features">>, num_future_vars, training)
    \o LSTMProg(305, "future_encoder", <<"temporal_encoder", "future_features">>,
                <<"temporal_encoder", "state.h">>, <<"temporal_encoder", "state.c">>,
                <<"temporal_encoder", "future">>, <<"temporal_encoder", "_">>)
    \o << NewOp(308, <<"temporal_encoder", "input_embedding">>,
                <<"temporal_encoder", "input_embedding@308">>,
                << <<"temporal_encoder", "historical_features">>,
                   <<"temporal_encoder", "future_features">> >>),
          NewOp(309, <<"temporal_encoder", "temporal_features">>,
                <<"temporal_encoder", "temporal_features@309">>,
                << <<"temporal_encoder", "history">>, <<"temporal_encoder", "future">> >>) >>
    \o GLUProg("temporal_encoder", "input_gate", <<"temporal_encoder", "temporal_features">>,
               <<"temporal_encoder", "temporal_features">>)
    \o << NewOp(311, <<"temporal_encoder", "temporal_features">>,
                <<"temporal_encoder", "temporal_features@311">>,
                << <<"temporal_encoder", "temporal_features">>,
                   <<"temporal_encoder", "input_embedding">> >>),
          NewOp(312, <<"temporal_encoder", "temporal_features">>,
                <<"temporal_encoder", "temporal_features@312">>,
                << <<"temporal_encoder", "temporal_features">>,
                   <<"temporal_encoder", "input_gate_ln.weight">>,
                   <<"temporal_encoder", "input_gate_ln.bias">> >>),
          ViewOp(313, <<"forward", "temporal_features">>,
                 <<"temporal_encoder", "temporal_features">>) >>

\* InterpretableMultiHeadAttention.forward, tft.py 217-248, called on x with
\* the projected output bound to dst.
AttentionProg(x, dst, mask_future_timesteps, training) ==
    << LinearOp(222, <<"attention", "qkv">>, <<"attention", "qkv@222">>, x,
                <<"attention", "qkv_linears">>, FALSE),
       ViewOp(223, <<"attention", "q">>, <<"attention", "qkv">>),
       ViewOp(223, <<"attention", "k">>, <<"attention", "qkv">>),
       ViewOp(223, <<"attention", "v">>, <<"attention", "qkv">>),
       ViewOp(226, <<"attention", "q">>, <<"attention", "q">>),
       ViewOp(227, <<"attention", "k">>, <<"attention", "k">>),
       ViewOp(228, <<"attention", "v">>, <<"attention", "v">>),
       ViewOp(232, <<"attention", "q.permute">>, <<"attention", "q">>),
       ViewOp(232, <<"attention", "k.permute">>, <<"attention", "k">>),
       NewOp(232, <<"attention", "attn_score">>, <<"attention", "attn_score@232">>,
             << <<"attention", "q.permute">>, <<"attention", "k.permute">> >>),
       InPlaceOp(233, <<"attention", "attn_score">>, <<>>) >>
    \o (IF mask_future_timesteps
          THEN << NewOp(236, <<"attention", "attn_score">>, <<"attention", "attn_score@236">>,
                        << <<"attention", "attn_score">>, <<"attention", "_mask">> >>) >>
          ELSE <<>>)
    \o << NewOp(238, <<"attention", "attn_prob">>, <<"attention", "attn_prob@238">>,
                << <<"attention", "attn_score">> >>),
          DropoutOp(239, <<"attention", "attn_prob">>, <<"attention", "attn_prob@239">>,
                    <<"attention", "attn_prob">>, training),
          ViewOp(243, <<"attention", "v.unsqueeze(1)">>, <<"attention", "v">>),
          NewOp(243, <<"attention", "attn_vec">>, <<"attention", "attn_vec@243">>,
                << <<"attention", "attn_prob">>, <<"attention", "v.unsqueeze(1)">> >>),
          NewOp(244, <<"attention", "m_attn_vec">>, <<"attention", "m_attn_vec@244">>,
                << <<"attention", "attn_vec">> >>),
          LinearOp(245, <<"attention", "out">>, <<"attention", "out@245">>,
                   <<"attention", "m_attn_vec">>, <<"attention", "out_proj">>, FALSE),
          DropoutOp(246, <<"attention", "out">>, <<"attention", "out@246">>,
                    <<"attention", "out">>, training),
          ViewOp(248, dst, <<"attention", "out">>) >>

\* TemporalFusionDecoder.forward, tft.py 348-374.
DecoderProg(training) ==
    << ViewOp(348, <<"decoder", "temporal_features">>, <<"forward", "temporal_features">>) >>
    \o GRNProg("decoder.enrichment_grn", <<"decoder", "temporal_features">>, <<"forward", "ce">>,
               <<"decoder", "enriched">>, FALSE, FALSE, training)
    \o AttentionProg(<<"decoder", "enriched">>, <<"decoder", "x">>, TRUE, training)
    \o << ViewOp(357, <<"decoder", "x">>, <<"decoder", "x">>),
          ViewOp(358, <<"decoder", "temporal_features">>, <<"decoder", "temporal_features">>),
          ViewOp(359, <<"decoder", "enriched">>, <<"decoder", "enriched">>) >>
    \o GLUProg("decoder", "attention_gate", <<"decoder", "x">>, <<"decoder", "x">>)
    \o << NewOp(362, <<"decoder", "x">>, <<"decoder", "x@362">>,
                << <<"decoder", "x">>, <<"decoder", "enriched">> >>),
          NewOp(363, <<"decoder", "x">>, <<"decoder", "x@363">>,
                << <<"decoder", "x">>, <<"decoder", "attention_ln.weight">>,
                   <<"decoder", "attention_ln.bias">> >>) >>
    \o GRNProg("decoder.positionwise_grn", <<"decoder", "x">>, <<>>, <<"decoder", "x">>,
               FALSE, FALSE, training)
    \o GLUProg("decoder", "decoder_gate", <<"decoder", "x">>, <<"decoder", "x">>)
    \o << NewOp(371, <<"decoder", "x">>, <<"decoder", "x@371">>,
                << <<"decoder", "x">>, <<"decoder", "temporal_features">> >>),
          NewOp(372, <<"decoder", "x">>, <<"decoder", "x@372">>,
                << <<"decoder", "x">>, <<"decoder", "decoder_ln.weight">>,
                   <<"decoder", "decoder_ln.bias">> >>),
          ViewOp(374, <<"forward", "temporal_features">>, <<"decoder", "x">>) >>

\* The parameters created by TFT.__init__ and the constructors it calls
\* (tft.py 20-25, 32-34, 43-60, 95-109, 165-178, 197-215, 252-262, 278-297,
\* 317-346, 508-542), and the _mask buffer registered at lines 210-215.
TFTParams(n_stat, n_hist) ==
    LET LinearP(scope, lin, bias) ==
            IF bias THEN {<<scope, lin \o ".weight">>, <<scope, lin \o ".bias">>}
                    ELSE {<<scope, lin \o ".weight">>}
        GLUP(g, glu) == LinearP(g, glu \o ".lin", TRUE)
        LayerNormP(g, ln) == {<<g, ln \o ".weight">>, <<g, ln \o ".bias">>}
        GRNP(g, has_ctx, has_out_proj, identity_ln) ==
            LinearP(g, "lin_a", TRUE) \cup LinearP(g, "lin_i", TRUE) \cup GLUP(g, "glu")
            \cup (IF has_ctx THEN LinearP(g, "lin_c", FALSE) ELSE {})
            \cup (IF has_out_proj THEN LinearP(g, "out_proj", TRUE) ELSE {})
            \cup (IF identity_ln THEN {} ELSE LayerNormP(g, "layer_norm"))
        VSNP(v, num_inputs) ==
            GRNP(v \o ".joint_grn", TRUE, num_inputs > 0, num_inputs = 1)
            \cup UNION {GRNP(v \o ".var_grns." \o ToString(i - 1), FALSE, FALSE, FALSE) :
                            i \in 1..num_inputs}
        LSTMP(lstm) ==
            {<<"temporal_encoder", lstm \o suffix>> :
                suffix \in {".weight_ih_l0", ".weight_hh_l0", ".bias_ih_l0", ".bias_hh_l0"}}
        EmbeddingP ==
            {<<"embedding", k \o suffix>> :
                k \in {"futr_exog", "tgt"} \cup (IF n_stat > 0 THEN {"stat_exog"} ELSE {})
                                           \cup (IF n_hist > 0 THEN {"hist_exog"} ELSE {}),
                suffix \in {"_embedding_vectors", "_embedding_bias"}}
    IN  EmbeddingP
        \cup VSNP("static_encoder.vsn", n_stat)
        \cup UNION {GRNP("static_encoder.context_grns." \o ToString(i - 1), FALSE, FALSE, FALSE) :
                        i \in 1..4}
        \cup VSNP("temporal_encoder.history_vsn", 1 + n_hist + 1)
        \cup VSNP("temporal_encoder.future_vsn", 1)
        \cup LSTMP("history_encoder") \cup LSTMP("future_encoder")
        \cup GLUP("temporal_encoder", "input_gate")
        \cup LayerNormP("temporal_encoder", "input_gate_ln")
        \cup GRNP("decoder.enrichment_grn", TRUE, FALSE, FALSE)
        \cup GRNP("decoder.positionwise_grn", FALSE, FALSE, FALSE)
        \cup LinearP("attention", "qkv_linears", FALSE) \cup LinearP("attention", "out_proj", FALSE)
        \cup {<<"attention", "_mask">>}
        \cup GLUP("decoder", "attention_gate") \cup GLUP("decoder", "decoder_gate")
        \cup LayerNormP("decoder", "attention_ln") \cup LayerNormP("decoder", "decoder_ln")
        \cup LinearP("forward", "output_adapter", TRUE)

\* The entries of windows_batch that are tensors (None entries have no storage).
TFTBatchKeys(has_futr, has_hist, has_stat) ==
    {"insample_y"} \cup (IF has_futr THEN {"futr_exog"} ELSE {})
                   \cup (IF has_hist THEN {"hist_exog"} ELSE {})
                   \cup (IF has_stat THEN {"stat_exog"} ELSE {})

\* TFT.forward, tft.py 544-610.  n_stat, n_hist and n_futr are the numbers of
\* static, historic and future variables (0: that input is None).
TFTProg(n_stat, n_hist, has_futr, training) ==
    << ViewOp(547, <<"forward", "y_insample">>, <<"windows_batch", "insample_y">>) >>
    \o (IF has_futr
          THEN << ViewOp(548, <<"forward", "futr_exog">>, <<"windows_batch", "futr_exog">>) >>
          ELSE <<>>)
    \o (IF n_hist > 0
          THEN << ViewOp(549, <<"forward", "hist_exog">>, <<"windows_batch", "hist_exog">>) >>
          ELSE <<>>)
    \o (IF n_stat > 0
          THEN << ViewOp(550, <<"forward", "stat_exog">>, <<"windows_batch", "stat_exog">>) >>
          ELSE <<>>)
    \o (IF has_futr THEN <<>>
        ELSE << NewOp(553, <<"forward", "futr_exog">>, <<"forward", "futr_exog@553">>,
                      << <<"forward", "y_insample">> >>),
                NewOp(554, <<"forward", "futr_exog">>, <<"forward", "futr_exog@554">>,
                      << <<"forward", "futr_exog">> >>) >>)
    \o EmbeddingProg(n_stat > 0, n_hist > 0)
    \o (IF n_stat > 0 THEN StaticEncoderProg(n_stat, training) ELSE ZeroContextsProg)
    \o << ViewOp(582, <<"forward", "k_inp[:, :input_size]">>, <<"forward", "k_inp">>),
          ViewOp(583, <<"forward", "t_observed_tgt[:, :input_size]">>,
                 <<"forward", "t_observed_tgt">>) >>
    \o (IF n_hist > 0
          THEN << ViewOp(586, <<"forward", "o_inp[:, :input_size]">>, <<"forward", "o_inp">>),
                  NewOp(587, <<"forward", "historical_inputs">>,
                        <<"forward", "historical_inputs@587">>,
                        << <<"forward", "o_inp[:, :input_size]">>,
                           <<"forward", "k_inp[:, :input_size]">>,
                           <<"forward", "t_observed_tgt[:, :input_size]">> >>) >>
          ELSE << NewOp(587, <<"forward", "historical_inputs">>,
                        <<"forward", "historical_inputs@587">>,
                        << <<"forward", "k_inp[:, :input_size]">>,
                           <<"forward", "t_observed_tgt[:, :input_size]">> >>) >>)
    \o << ViewOp(590, <<"forward", "future_inputs">>, <<"forward", "k_inp">>) >>
    \o TemporalEncoderProg(1 + n_hist + 1, 1, training)
    \o DecoderProg(training)
    \o << LinearOp(608, <<"forward", "y_hat">>, <<"forward", "y_hat@608">>,
                   <<"forward", "temporal_features">>, <<"forward", "output_adapter">>, TRUE) >>

\* STAD.forward, softs.py 52-80, of encoder layer l, called on input with the
\* result bound to dst.
STADProg(l, input, dst, training) ==
    << LinearOp(56, <<l, "gen1(input)">>, <<l, "gen1(input)@56">>, input, <<l, "gen1">>, TRUE),
       NewOp(56, <<l, "combined_mean">>, <<l, "combined_mean@56">>, << <<l, "gen1(input)">> >>),
       LinearOp(57, <<l, "combined_mean">>, <<l, "combined_mean@57">>, <<l, "combined_mean">>,
                <<l, "gen2">>, TRUE) >>
    \o (IF training
          THEN << NewOp(61, <<l, "nan_to_num">>, <<l, "nan_to_num@61">>,
                        << <<l, "combined_mean">> >>),
                  NewOp(61, <<l, "ratio">>, <<l, "ratio@61">>, << <<l, "nan_to_num">> >>),
                  ViewOp(62, <<l, "ratio">>, <<l, "ratio">>),
                  NewOp(63, <<l, "ratio">>, <<l, "ratio@63">>, << <<l, "ratio">> >>),
                  NewOp(64, <<l, "indices">>, <<l, "indices@64">>, << <<l, "ratio">> >>),
                  ViewOp(65, <<l, "indices">>, <<l, "indices">>),
                  NewOp(66, <<l, "combined_mean">>, <<l, "combined_mean@66">>,
                        << <<l, "combined_mean">>, <<l, "indices">> >>),
                  NewOp(67, <<l, "combined_mean">>, <<l, "combined_mean@67">>,
                        << <<l, "combined_mean">> >>) >>
          ELSE << NewOp(69, <<l, "weight">>, <<l, "weight@69">>, << <<l, "combined_mean">> >>),
                  NewOp(71, <<l, "combined_mean * weight">>, <<l, "combined_mean * weight@71">>,
                        << <<l, "combined_mean">>, <<l, "weight">> >>),
                  NewOp(70, <<l, "sum">>, <<l, "sum@70">>, << <<l, "combined_mean * weight">> >>),
                  NewOp(72, <<l, "combined_mean">>, <<l, "combined_mean@72">>,
                        << <<l, "sum">> >>) >>)
    \o << NewOp(75, <<l, "combined_mean_cat">>, <<l, "combined_mean_cat@75">>,
                << input, <<l, "combined_mean">> >>),
          LinearOp(76, <<l, "gen3(cat)">>, <<l, "gen3(cat)@76">>, <<l, "combined_mean_cat">>,
                   <<l, "gen3">>, TRUE),
          NewOp(76, <<l, "combined_mean_cat">>, <<l, "combined_mean_cat@76">>,
                << <<l, "gen3(cat)">> >>),
          LinearOp(77, <<l, "combined_mean_cat">>, <<l, "combined_mean_cat@77">>,
                   <<l, "combined_mean_cat">>, <<l, "gen4">>, TRUE),
          ViewOp(78, <<l, "output">>, <<l, "combined_mean_cat">>),
          ViewOp(80, dst, <<l, "output">>) >>

\* The encoder layer that wraps STAD (TransEncoderLayer of common/_modules.py,
\* constructed at softs.py 216-222): a residual connection around the STAD
\* output, a normalisation, a feed-forward block with its own residual
\* connection, and a second normalisation.
EncoderLayerProg(l, x, dst, training) ==
    STADProg(l, x, <<l, "new_x">>, training)
    \o << DropoutOp(216, <<l, "new_x">>, <<l, "dropout(new_x)">>, <<l, "new_x">>, training),
          NewOp(216, <<l, "x">>, <<l, "x + new_x">>, <<x, <<l, "new_x">> >>),
          NewOp(216, <<l, "x">>, <<l, "norm1(x)">>,
                << <<l, "x">>, <<l, "norm1.weight">>, <<l, "norm1.bias">> >>),
          NewOp(216, <<l, "y">>, <<l, "conv1(y)">>,
                << <<l, "x">>, <<l, "conv1.weight">>, <<l, "conv1.bias">> >>),
          NewOp(216, <<l, "y">>, <<l, "conv2(y)">>,
                << <<l, "y">>, <<l, "conv2.weight">>, <<l, "conv2.bias">> >>),
          NewOp(216, <<l, "x + y">>, <<l, "x + y">>, << <<l, "x">>, <<l, "y">> >>),
          NewOp(216, dst, <<l, "norm2(x + y)">>,
                << <<l, "x + y">>, <<l, "norm2.weight">>, <<l, "norm2.bias">> >>) >>

\* TransEncoder applied at softs.py 243: the e_layers layers in turn.
RECURSIVE EncoderProg(_, _)
EncoderProg(e_layers, training) ==
    IF e_layers = 0 THEN <<>>
    ELSE EncoderProg(e_layers - 1, training)
         \o EncoderLayerProg("encoder.layers." \o ToString(e_layers - 1),
                             <<"forecast", "enc_out">>, <<"forecast", "enc_out">>, training)

\* a centring that subtracts in place (x_enc -= means): x_enc keeps the
\* storage of the caller's insample_y
CenterOp_mut ==
    InPlaceOp(235, <<"forecast", "x_enc">>, << <<"forecast", "means">> >>)

\* softs.py 235, x_enc = x_enc - means: the difference is a new tensor and
\* the local name x_enc is rebound to it
CenterOp ==
    NewOp(235, <<"forecast", "x_enc">>, <<"forecast", "x_enc@235">>,
          << <<"forecast", "x_enc">>, <<"forecast", "means">> >>)

\* SOFTS.forward with SOFTS.forecast and DataEmbedding_inverted.forward,
\* softs.py 27-36 and 231-266.
SOFTSProg(use_norm, e_layers, training) ==
    << ViewOp(261, <<"forward", "insample_y">>, <<"windows_batch", "insample_y">>),
       ViewOp(263, <<"forecast", "x_enc">>, <<"forward", "insample_y">>) >>
    \o (IF use_norm
          THEN << NewOp(234, <<"forecast", "x_enc.mean">>, <<"forecast", "x_enc.mean@234">>,
                        << <<"forecast", "x_enc">> >>),
                  ViewOp(234, <<"forecast", "means">>, <<"forecast", "x_enc.mean">>),
                  CenterOp,
                  NewOp(237, <<"forecast", "var">>, <<"forecast", "var@237">>,
                        << <<"forecast", "x_enc">> >>),
                  NewOp(237, <<"forecast", "var + 1e-5">>, <<"forecast", "var + 1e-5@237">>,
                        << <<"forecast", "var">> >>),
                  NewOp(236, <<"forecast", "stdev">>, <<"forecast", "stdev@236">>,
                        << <<"forecast", "var + 1e-5">> >>),
                  InPlaceOp(239, <<"forecast", "x_enc">>, << <<"forecast", "stdev">> >>) >>
          ELSE <<>>)
    \o << ViewOp(28, <<"enc_embedding", "x">>, <<"forecast", "x_enc">>),
          LinearOp(31, <<"enc_embedding", "x">>, <<"enc_embedding", "x@31">>,
                   <<"enc_embedding", "x">>, <<"enc_embedding", "value_embedding">>, TRUE),
          DropoutOp(36, <<"forecast", "enc_out">>, <<"enc_embedding", "x@36">>,
                    <<"enc_embedding", "x">>, training) >>
    \o EncoderProg(e_layers, training)
    \o << LinearOp(244, <<"forecast", "projection(enc_out)">>,
                   <<"forecast", "projection(enc_out)@244">>,
                   <<"forecast", "enc_out">>, <<"forecast", "projection">>, TRUE),
          ViewOp(244, <<"forecast", "dec_out">>, <<"forecast", "projection(enc_out)">>),
          ViewOp(244, <<"forecast", "dec_out">>, <<"forecast", "dec_out">>) >>
    \o (IF use_norm
          THEN << ViewOp(249, <<"forecast", "stdev[:, 0, :]">>, <<"forecast", "stdev">>),
                  NewOp(251, <<"forecast", "stdev.repeat">>, <<"forecast", "stdev.repeat@251">>,
                        << <<"forecast", "stdev[:, 0, :]">> >>),
                  NewOp(248, <<"forecast", "dec_out">>, <<"forecast", "dec_out@248">>,
                        << <<"forecast", "dec_out">>, <<"forecast", "stdev.repeat">> >>),
                  ViewOp(254, <<"forecast", "means[:, 0, :]">>, <<"forecast", "means">>),
                  NewOp(256, <<"forecast", "means.repeat">>, <<"forecast", "means.repeat@256">>,
                        << <<"forecast", "means[:, 0, :]">> >>),
                  NewOp(253, <<"forecast", "dec_out">>, <<"forecast", "dec_out@253">>,
                        << <<"forecast", "dec_out">>, <<"forecast", "means.repeat">> >>) >>
          ELSE <<>>)
    \o << ViewOp(258, <<"forward", "y_pred">>, <<"forecast", "dec_out">>),
          ViewOp(264, <<"forward", "y_pred">>, <<"forward", "y_pred">>) >>

\* The parameters created by SOFTS.__init__ and the constructors it calls
\* (softs.py 22-25, 44-50, 212-229); those of the wrapping encoder layer are
\* two normalisations and the two layers of its feed-forward block.
SOFTSParams(e_layers) ==
    LET LinearP(scope, lin) == {<<scope, lin \o ".weight">>, <<scope, lin \o ".bias">>}
        LayerP(l) ==
            UNION {LinearP(l, m) : m \in {"gen1", "gen2", "gen3", "gen4",
                                          "norm1", "norm2", "conv1", "conv2"}}
    IN  LinearP("enc_embedding", "value_embedding")
        \cup UNION {LayerP("encoder.layers." \o ToString(l - 1)) : l \in 1..e_layers}
        \cup LinearP("forecast", "projection")

MaxStatVars == 2
MaxHistVars == 1
MaxLayers == 2

\* One forward pass to follow: the model, its configuration, what the batch
\* holds, and the module's training flag.
MemPasses ==
    [kind : {"TFT"}, n_stat : 0..MaxStatVars, n_hist : 0..MaxHistVars,
     has_futr : BOOLEAN, use_norm : {FALSE}, e_layers : {0}, training : BOOLEAN]
    \cup
    [kind : {"SOFTS"}, n_stat : {0}, n_hist : {0},
     has_futr : {FALSE}, use_norm : BOOLEAN, e_layers : 1..MaxLayers, training : BOOLEAN]

PassProg(p) ==
    IF p.kind = "TFT" THEN TFTProg(p.n_stat, p.n_hist, p.has_futr, p.training)
    ELSE SOFTSProg(p.use_norm, p.e_layers, p.training)

PassParams(p) ==
    IF p.kind = "TFT" THEN TFTParams(p.n_stat, p.n_hist) ELSE SOFTSParams(p.e_layers)

PassBatch(p) ==
    {<<"windows_batch", k>> :
        k \in IF p.kind = "TFT" THEN TFTBatchKeys(p.has_futr, p.n_hist > 0, p.n_stat > 0)
              ELSE {"insample_y"}}

\* The storage an out-of-place operation writes its result to: a fresh one.
ResultStorage_mut(ins, alias) ==
    IF ins.reads = <<>> THEN ins.st ELSE alias[ins.reads[Len(ins.reads)]]

ResultStorage(ins, alias) == ins.st

\* A write to a storage: creation of a fresh one, or one more modification of
\* an existing one.
Written(version, st) ==
    IF st \in DOMAIN version THEN [version EXCEPT ![st] = @ + 1] ELSE version @@ (st :> 0)

Bind(alias, name, st) ==
    IF name \in DOMAIN alias THEN [alias EXCEPT ![name] = st] ELSE alias @@ (name :> st)

\* The operands of an operation are read: each operand's storage gains the
\* operation as a reader; a storage created by the operation starts unread.
LogReads(rd, ins, alias, st) ==
    LET logged == [s \in DOMAIN rd |->
                     rd[s] \cup {<<ins.dst[1], ins.line, i>> :
                                    i \in {j \in 1..Len(ins.reads) : alias[ins.reads[j]] = s}}]
    IN  IF st \in DOMAIN rd THEN logged ELSE logged @@ (st :> {})

InitMem ==
    /\ IdleTFT /\ IdleGRN /\ IdleVSN /\ IdleAttn /\ IdleSTAD /\ IdleSOFTS /\ IdleScript
    /\ IdleDec
    /\ \E p \in MemPasses :
         /\ mem_pass = p
         /\ mem_prog = PassProg(p)
         /\ mem_alias = [n \in PassParams(p) \cup PassBatch(p) |-> n]
         /\ mem_version = [s \in PassParams(p) \cup PassBatch(p) |-> 0]
         /\ mem_reads = [s \in PassParams(p) \cup PassBatch(p) |-> {}]
    /\ mem_ip = 0
    /\ mem_pc = "running"

NextIns == mem_prog[mem_ip + 1]

MemNew ==
    /\ mem_pc = "running" /\ mem_ip < Len(mem_prog) /\ NextIns.op = "new"
    /\ \E st \in {ResultStorage(NextIns, mem_alias)} :
         /\ mem_version' = Written(mem_version, st)
         /\ mem_alias' = Bind(mem_alias, NextIns.dst, st)
         /\ mem_reads' = LogReads(mem_reads, NextIns, mem_alias, st)
    /\ mem_ip' = mem_ip + 1
    /\ UNCHANGED <<mem_pass, mem_prog, mem_pc>>
    /\ UNCHANGED otherThanMem

MemView ==
    /\ mem_pc = "running" /\ mem_ip < Len(mem_prog) /\ NextIns.op = "view"
    /\ mem_alias' = Bind(mem_alias, NextIns.dst, mem_alias[NextIns.reads[1]])
    /\ mem_ip' = mem_ip + 1
    /\ UNCHANGED <<mem_pass, mem_prog, mem_version, mem_reads, mem_pc>>
    /\ UNCHANGED otherThanMem

MemInPlace ==
    /\ mem_pc = "running" /\ mem_ip < Len(mem_prog) /\ NextIns.op = "inplace"
    /\ mem_version' = Written(mem_version, mem_alias[NextIns.dst])
    /\ mem_reads' = LogReads(mem_reads, NextIns, mem_alias, mem_alias[NextIns.dst])
    /\ mem_ip' = mem_ip + 1
    /\ UNCHANGED <<mem_pass, mem_prog, mem_alias, mem_pc>>
    /\ UNCHANGED otherThanMem

MemReturn ==
    /\ mem_pc = "running" /\ mem_ip = Len(mem_prog)
    /\ mem_pc' = "returned"
    /\ UNCHANGED <<mem_pass, mem_prog, mem_ip, mem_alias, mem_version, mem_reads>>
    /\ UNCHANGED otherThanMem

NextMem == MemNew \/ MemView \/ MemInPlace \/ MemReturn

SpecMem == InitMem /\ [][NextMem]_vars

\* C12: no forward pass of TFT or SOFTS, in training or eval mode, changes a
\* parameter or a registered buffer: at every point of the pass, and after it,
\* every parameter and the causal mask have been written zero times, also
\* after the in-place operations of lines tft.py:233 and softs.py:239 ran.
C12_ParametersUnchanged ==
    mem_pc \in {"running", "returned"} =>
        \A s \in PassParams(mem_pass) :
            /\ mem_version[s] = 0
            /\ mem_alias[s] = s

C12_Witness ==
    /\ mem_pc = "returned"
    /\ mem_pass.kind = "TFT" /\ mem_pass.training /\ mem_pass.n_stat = 2
    /\ mem_version[<<"attention", "attn_score@232">>] = 1
    /\ <<"attention", "_mask">> \in PassParams(mem_pass)
    /\ \E i \in 1..Len(mem_prog) :
         mem_prog[i].op = "new" /\ mem_prog[i].reads[Len(mem_prog[i].reads)] = <<"attention", "_mask">>

\* the entries of the caller's mapping that name a tensor, as the pass
\* sees them now
BatchEntries == {n \in DOMAIN mem_alias : n[1] = "windows_batch"}

\* C22: neither TFT.forward nor SOFTS.forward modifies the caller's batch:
\* at every point of the pass, and after it, every tensor of windows_batch
\* has been written zero times (it holds the values it held before the
\* call), every entry of the mapping still names the tensor it named, and no
\* entry was added (an entry that was None stays None), although
\* SOFTS.forecast divides x_enc by the standard deviation in place and
\* TFT.forward rebinds its local futr_exog when the entry is None.
C22_BatchUnchanged ==
    mem_pc \in {"running", "returned"} =>
        /\ BatchEntries = PassBatch(mem_pass)
        /\ \A s \in PassBatch(mem_pass) :
              /\ mem_version[s] = 0
              /\ mem_alias[s] = s

\* C22 witness: SOFTS.forward has returned with use_norm set, the in-place
\* division ran (on the tensor made at line 235) and forward's insample_y
\* still names the caller's tensor, which was never written
C22_Witness ==
    /\ mem_pc = "returned"
    /\ mem_pass.kind = "SOFTS" /\ mem_pass.use_norm
    /\ \E i \in 1..Len(mem_prog) : mem_prog[i].op = "inplace" /\ mem_prog[i].line = 239
    /\ mem_version[<<"forecast", "x_enc@235">>] = 1
    /\ mem_alias[<<"forward", "insample_y">>] = <<"windows_batch", "insample_y">>
    /\ mem_version[<<"windows_batch", "insample_y">>] = 0

\* C13: for an insample input [B, input_size, Z] and any outputsize_multiplier,
\* SOFTS.forward returns [B, h, Z * outputsize_multiplier]; for
\* outputsize_multiplier = 1 entry [b, t, n] of the result is forecast's value
\* for row t and series n, which comes from the projection output for horizon
\* step t of series n (de-normalised with the statistics of series n when
\* use_norm is set): the reshape mixes neither horizon steps nor series.
C13_ForwardShape ==
    softs_pc = "returned" =>
        LET B == Len(softs_batch)
            Z == Len(softs_batch[1][1])
            h == softs_cfg.h
            om == softs_cfg.outputsize_multiplier
        IN  /\ Len(softs_y_pred) = B
            /\ \A b \in 1..B :
                  /\ Len(softs_y_pred[b]) = h
                  /\ \A t \in 1..h : Len(softs_y_pred[b][t]) = Z * om
            /\ om = 1 =>
                  \A b \in 1..B, t \in 1..h, n \in 1..Z :
                      /\ softs_y_pred[b][t][n] = softs_out[b][t][n]
                      /\ softs_y_pred[b][t][n] =
                            IF softs_cfg.use_norm
                              THEN SymAdd(SymMulStdev(SymRat(RInt(softs_dec[b][t][n])),
                                                      softs_stats.sd2[b][n]),
                                          softs_stats.means[b][n])
                              ELSE SymRat(RInt(softs_dec[b][t][n]))

C13_Witness ==
    /\ softs_pc = "returned"
    /\ softs_cfg.outputsize_multiplier = 1 /\ softs_cfg.h = MaxLen
    /\ Len(softs_batch) = 1 /\ Len(softs_batch[1][1]) = 2
    /\ ~softs_cfg.use_norm
    /\ softs_y_pred[1][MaxLen][1] # softs_y_pred[1][1][2]
    /\ softs_y_pred[1][1][2] = SymRat(RInt(softs_dec[1][1][2]))

(***************************************************************************)
(* scriptv1.py: the transfer-learning script, run several times in turn on *)
(* one file system.                                                        *)
(***************************************************************************)
MaxRuns == 3

SourceDatasets == {"M4", "M3"}

TargetDatasets == {"AirPassengers", "M3", "M4"}

ModelNames == {"autonhits", "autolstm", "autotft", "autonbeats"}

ExperimentIds == {"20230422"}

\* MODEL_DICT, scriptv1.py:88: each known name maps to one of the model lists
\* of lines 49-86 (named here by the variable that holds it).
MODEL_DICT ==
    [m \in {"autonhits", "autolstm", "autotft"} |->
        IF m = "autonhits" THEN "nhits" ELSE IF m = "autolstm" THEN "lstm" ELSE "tft"]

\* the path of lines 95-96: one checkpoint per (source, model, experiment id)
CkptKey(a) == <<a.source_dataset, a.model, a.experiment_id>>

\* a check that looks in the wrong folder
FileExists_mut(fs, a) == <<a.target_dataset, a.model, a.experiment_id>> \in fs

\* os.path.isfile(...{args.model}_0.ckpt), lines 95-96
FileExists(fs, a) == CkptKey(a) \in fs

\* nf.save(path=..., overwrite=False, save_dataset=False), lines 116-117: the
\* fitted model is written to the folder as {model}_0.ckpt.
SavedFiles(fs, a) == fs \cup {CkptKey(a)}

InitScript ==
    /\ files = {} /\ csvs = {}
    /\ fit_count = [k \in SourceDatasets \X ModelNames \X ExperimentIds |-> 0]
    /\ runs = 0
    /\ args = <<>> /\ file_exists = FALSE /\ nf = "none" /\ steps = <<>> /\ exc = ""
    /\ script_pc = "idle"
    /\ IdleTFT /\ IdleGRN /\ IdleVSN /\ IdleAttn /\ IdleSTAD /\ IdleSOFTS /\ IdleMem
    /\ IdleDec

\* python scriptv1.py --source_dataset .. --target_dataset .. --model ..
\* --experiment_id ..: the module body (lines 1-88) runs, then parse_args
\* (149-155, 157-162).  The model lists of lines 49-86 are built here; whether
\* AutoTFT accepts the keyword hh of line 73 is decided by code outside this
\* file, so both outcomes are possible.
ScriptStart ==
    /\ script_pc = "idle" /\ runs < MaxRuns
    /\ \E s \in SourceDatasets, t \in TargetDatasets, m \in ModelNames, e \in ExperimentIds :
          args' = [source_dataset |-> s, target_dataset |-> t, model |-> m, experiment_id |-> e]
    /\ \/ script_pc' = "main" /\ exc' = ""
       \/ script_pc' = "raised" /\ exc' = "TypeError"
    /\ UNCHANGED <<files, csvs, fit_count, runs, file_exists, nf, steps>>
    /\ UNCHANGED otherThanScript

\* main, lines 93-98: make the folder, look for the checkpoint.
MainCheckpoint ==
    /\ script_pc = "main"
    /\ file_exists' = FileExists(files, args)
    /\ steps' = Append(steps, "check_checkpoint")
    /\ script_pc' = IF FileExists(files, args) THEN "load" ELSE "read_source"
    /\ UNCHANGED <<files, csvs, fit_count, runs, args, nf, exc>>
    /\ UNCHANGED otherThanScript

\* lines 99-105: read the source dataset.
MainReadSource ==
    /\ script_pc = "read_source"
    /\ IF args.source_dataset = "M4"
         THEN /\ steps' = Append(steps, "read_source")
              /\ script_pc' = "lookup"
              /\ exc' = exc
         ELSE /\ script_pc' = "raised"
              /\ exc' = "Dataset not defined"
              /\ steps' = steps
    /\ UNCHANGED <<files, csvs, fit_count, runs, args, file_exists, nf>>
    /\ UNCHANGED otherThanScript

\* lines 108-109: model = MODEL_DICT[args.model], where a missing key raises
\* KeyError in the subscript; then the test "model is None".
MainLookupModel ==
    /\ script_pc = "lookup"
    /\ IF args.model \in DOMAIN MODEL_DICT
         THEN IF MODEL_DICT[args.model] = "None"
                THEN script_pc' = "raised" /\ exc' = "Model not defined"
                ELSE script_pc' = "fit" /\ exc' = exc
         ELSE script_pc' = "raised" /\ exc' = "KeyError"
    /\ UNCHANGED <<files, csvs, fit_count, runs, args, file_exists, nf, steps>>
    /\ UNCHANGED otherThanScript

\* lines 112-113: nf = NeuralForecast(...); nf.fit(df=Y_df).
MainFit ==
    /\ script_pc = "fit"
    /\ nf' = "fitted"
    /\ fit_count' = [fit_count EXCEPT ![CkptKey(args)] = @ + 1]
    /\ steps' = Append(steps, "fit")
    /\ script_pc' = "save"
    /\ UNCHANGED <<files, csvs, runs, args, file_exists, exc>>
    /\ UNCHANGED otherThanScript

\* lines 116-117: nf.save(...).
MainSave ==
    /\ script_pc = "save"
    /\ files' = SavedFiles(files, args)
    /\ steps' = Append(steps, "save")
    /\ script_pc' = "read_target"
    /\ UNCHANGED <<csvs, fit_count, runs, args, file_exists, nf, exc>>
    /\ UNCHANGED otherThanScript

\* lines 118-122: nf = NeuralForecast.load(...).
MainLoad ==
    /\ script_pc = "load"
    /\ nf' = "loaded"
    /\ steps' = Append(steps, "load")
    /\ script_pc' = "read_target"
    /\ UNCHANGED <<files, csvs, fit_count, runs, args, file_exists, exc>>
    /\ UNCHANGED otherThanScript

\* lines 125-136: read the target dataset.
MainReadTarget ==
    /\ script_pc = "read_target"
    /\ IF args.target_dataset \in {"AirPassengers", "M3"}
         THEN /\ steps' = Append(steps, "read_target")
              /\ script_pc' = "predict"
              /\ exc' = exc
         ELSE /\ script_pc' = "raised"
              /\ exc' = "Dataset not defined"
              /\ steps' = steps
    /\ UNCHANGED <<files, csvs, fit_count, runs, args, file_exists, nf>>
    /\ UNCHANGED otherThanScript

\* lines 138-140: nf.cross_validation(..., fit_models=False).
MainPredict ==
    /\ script_pc = "predict"
    /\ steps' = Append(steps, "predict")
    /\ script_pc' = "write_csv"
    /\ UNCHANGED <<files, csvs, fit_count, runs, args, file_exists, nf, exc>>
    /\ UNCHANGED otherThanScript

\* lines 142-147: make the results folder, write the forecasts.
MainWriteCsv ==
    /\ script_pc = "write_csv"
    /\ csvs' = csvs \cup {<<args.target_dataset, args.model, args.source_dataset,
                            args.experiment_id>>}
    /\ steps' = Append(steps, "write_csv")
    /\ script_pc' = "done"
    /\ UNCHANGED <<files, fit_count, runs, args, file_exists, nf, exc>>
    /\ UNCHANGED otherThanScript

\* The process ends, normally or with the exception; the files stay.
ScriptExit ==
    /\ script_pc \in {"done", "raised"}
    /\ runs' = runs + 1
    /\ args' = <<>> /\ file_exists' = FALSE /\ nf' = "none" /\ steps' = <<>> /\ exc' = ""
    /\ script_pc' = "idle"
    /\ UNCHANGED <<files, csvs, fit_count>>
    /\ UNCHANGED otherThanScript

NextScript ==
    \/ ScriptStart \/ MainCheckpoint \/ MainReadSource \/ MainLookupModel \/ MainFit
    \/ MainSave \/ MainLoad \/ MainReadTarget \/ MainPredict \/ MainWriteCsv \/ ScriptExit

SpecScript == InitScript /\ [][NextScript]_vars

IsPrefix(s, t) == Len(s) <= Len(t) /\ \A i \in 1..Len(s) : s[i] = t[i]

C20_ModelNotDefined ==
    (/\ script_pc \in {"raised", "done", "fit", "save", "read_target", "predict", "write_csv"}
     /\ Len(steps) >= 1 /\ ~file_exists
     /\ args.source_dataset = "M4"
     /\ args.model \notin DOMAIN MODEL_DICT)
    => /\ script_pc = "raised"
       /\ exc = "Model not defined"
       /\ \A i \in 1..Len(steps) : steps[i] \notin {"fit", "save", "predict"}

(***************************************************************************)
(* TemporalFusionDecoder.forward one statement at a time, on shapes, with  *)
(* the shapes inside the attention call.                                   *)
(***************************************************************************)
\* heads laid side by side instead of averaged
HeadMean_mut(attn_vec) ==
    IF ~IsShape(attn_vec) \/ Len(attn_vec) # 4 THEN Err
    ELSE <<attn_vec[1], attn_vec[3], attn_vec[2] * attn_vec[4]>>

\* torch.mean(attn_vec, dim=1), tft.py:244
HeadMean(attn_vec) == ReduceDim(attn_vec, 1)

\* InterpretableMultiHeadAttention.forward (tft.py:217-248) on shapes, every
\* intermediate tensor kept.
AttentionShapes(att, x) ==
    LET bs == x[1]
        t == x[2]
        qkv == Linear(x, att.hidden_size, (2 * att.n_head + 1) * att.d_head)
        split == <<att.n_head * att.d_head, att.n_head * att.d_head, att.d_head>>
        q == <<bs, t, att.n_head, att.d_head>>
        k == <<bs, t, att.n_head, att.d_head>>
        v == <<bs, t, att.d_head>>
        attn_score == Matmul(Permute(q, <<0, 2, 1, 3>>), Permute(k, <<0, 2, 3, 1>>))
        masked == Broadcast(attn_score, <<1, att.example_length, att.example_length>>)
        attn_vec == Matmul(masked, Unsqueeze(v, 1))
        m_attn_vec == HeadMean(attn_vec)
    IN  [qkv |-> qkv, split |-> split, q |-> q, k |-> k, v |-> v,
         attn_score |-> masked, attn_vec |-> attn_vec, m_attn_vec |-> m_attn_vec,
         out |-> IF qkv = Err \/ split[1] + split[2] + split[3] # qkv[Len(qkv)] THEN Err
                 ELSE Linear(m_attn_vec, att.d_head, att.hidden_size)]

\* the attention cut to the forecast positions before it runs
AttentionInput_mut(enriched, encoder_length) == SliceTime(enriched, encoder_length, -1)

\* the tensor the attention is called on, tft.py:354: all of enriched
AttentionInput(enriched, encoder_length) == enriched

\* a decoder built by TFT.__init__ (tft.py:530-537) and called by TFT.forward
\* (tft.py:603-605) on temporal_features [B, input_size + h, H] and ce [B, H]
InitDec ==
    /\ \E hh \in HiddenHeads, B \in Sizes(MaxB), input_size \in Sizes(MaxLen), h \in Sizes(MaxLen) :
          /\ AttentionInit(hh[2], hh[1], input_size + h).ok
          /\ dec_att = AttentionInit(hh[2], hh[1], input_size + h)
          /\ dec_encoder_length = input_size
          /\ dec_tf = <<B, input_size + h, hh[1]>>
          /\ dec_ce = <<B, hh[1]>>
    /\ dec_enriched = <<>> /\ dec_x = <<>> /\ dec_attn = <<>> /\ dec_adds = <<>>
    /\ dec_pc = "enrich"
    /\ IdleTFT /\ IdleGRN /\ IdleVSN /\ IdleAttn /\ IdleSTAD /\ IdleSOFTS /\ IdleMem /\ IdleScript

\* line 351
DecEnrich ==
    /\ dec_pc = "enrich"
    /\ dec_enriched' = GRNForward(GRNCfg(dec_att.hidden_size, dec_att.hidden_size, 0,
                                         dec_att.hidden_size), dec_tf, dec_ce)
    /\ dec_pc' = "attention"
    /\ UNCHANGED <<dec_att, dec_encoder_length, dec_ce, dec_tf, dec_x, dec_attn, dec_adds>>
    /\ UNCHANGED otherThanDec

\* line 354
DecAttention ==
    /\ dec_pc = "attention"
    /\ \E a \in {AttentionShapes(dec_att, AttentionInput(dec_enriched, dec_encoder_length))} :
          /\ dec_attn' = a
          /\ dec_x' = a.out
          /\ dec_pc' = IF a.out = Err THEN "raised" ELSE "slice"
    /\ UNCHANGED <<dec_att, dec_encoder_length, dec_ce, dec_tf, dec_enriched, dec_adds>>
    /\ UNCHANGED otherThanDec

\* lines 357-359
DecSlice ==
    /\ dec_pc = "slice"
    /\ dec_x' = SliceTime(dec_x, dec_encoder_length, -1)
    /\ dec_tf' = SliceTime(dec_tf, dec_encoder_length, -1)
    /\ dec_enriched' = SliceTime(dec_enriched, dec_encoder_length, -1)
    /\ dec_pc' = "attention_gate"
    /\ UNCHANGED <<dec_att, dec_encoder_length, dec_ce, dec_attn, dec_adds>>
    /\ UNCHANGED otherThanDec

\* lines 361-363
DecAttentionGate ==
    /\ dec_pc = "attention_gate"
    /\ \E g \in {GLU(dec_x, dec_att.hidden_size, dec_att.hidden_size)} :
          /\ dec_adds' = Append(dec_adds, <<g, dec_enriched>>)
          /\ dec_x' = LayerNorm(Broadcast(g, dec_enriched), dec_att.hidden_size)
    /\ dec_pc' = "positionwise"
    /\ UNCHANGED <<dec_att, dec_encoder_length, dec_ce, dec_tf, dec_enriched, dec_attn>>
    /\ UNCHANGED otherThanDec

\* line 366
DecPositionwise ==
    /\ dec_pc = "positionwise"
    /\ dec_x' = GRNForward(GRNCfg(dec_att.hidden_size, dec_att.hidden_size, 0, 0), dec_x, NoneS)
    /\ dec_pc' = "decoder_gate"
    /\ UNCHANGED <<dec_att, dec_encoder_length, dec_ce, dec_tf, dec_enriched, dec_attn, dec_adds>>
    /\ UNCHANGED otherThanDec

\* lines 370-372
DecDecoderGate ==
    /\ dec_pc = "decoder_gate"
    /\ \E g \in {GLU(dec_x, dec_att.hidden_size, dec_att.hidden_size)} :
          /\ dec_adds' = Append(dec_adds, <<g, dec_tf>>)
          /\ dec_x' = LayerNorm(Broadcast(g, dec_tf), dec_att.hidden_size)
    /\ dec_pc' = "return"
    /\ UNCHANGED <<dec_att, dec_encoder_length, dec_ce, dec_tf, dec_enriched, dec_attn>>
    /\ UNCHANGED otherThanDec

\* line 374
DecReturn ==
    /\ dec_pc = "return"
    /\ dec_pc' = IF dec_x = Err THEN "raised" ELSE "returned"
    /\ UNCHANGED <<dec_att, dec_encoder_length, dec_ce, dec_tf, dec_enriched, dec_x, dec_attn,
                   dec_adds>>
    /\ UNCHANGED otherThanDec

NextDec ==
    \/ DecEnrich \/ DecAttention \/ DecSlice \/ DecAttentionGate \/ DecPositionwise
    \/ DecDecoderGate \/ DecReturn

SpecDec == InitDec /\ [][NextDec]_vars

\* C15: the self-attention runs over all T_hist + h positions of the enriched
\* sequence; only after it are the attention output, the temporal features
\* and the enriched features cut to the last h positions; both residual
\* additions combine tensors of length h; the result is [B, h, H].
C15_AttendThenTruncate ==
    LET T == dec_att.example_length
        h == dec_att.example_length - dec_encoder_length
        B == dec_ce[1]
        H == dec_att.hidden_size
    IN  /\ dec_pc \in {"enrich", "attention"} => dec_tf = <<B, T, H>> /\ dec_attn = <<>>
        /\ dec_pc = "slice" =>
              /\ dec_attn.qkv[2] = T
              /\ dec_attn.attn_score = <<B, dec_att.n_head, T, T>>
              /\ dec_x = <<B, T, H>> /\ dec_tf = <<B, T, H>> /\ dec_enriched = <<B, T, H>>
        /\ dec_pc \in {"attention_gate", "positionwise", "decoder_gate", "return", "returned"} =>
              /\ dec_attn.attn_score = <<B, dec_att.n_head, T, T>>
              /\ dec_x = <<B, h, H>> /\ dec_tf = <<B, h, H>> /\ dec_enriched = <<B, h, H>>
              /\ \A i \in 1..Len(dec_adds) :
                    dec_adds[i][1] = <<B, h, H>> /\ dec_adds[i][2] = <<B, h, H>>
        /\ dec_pc \in {"positionwise", "decoder_gate"} => Len(dec_adds) = 1
        /\ dec_pc \in {"return", "returned"} => Len(dec_adds) = 2
        /\ dec_pc \notin {"idle", "raised"}
        /\ dec_pc = "returned" =>
              dec_x = DecoderForward(dec_att, dec_encoder_length, <<B, T, H>>, dec_ce)

C15_Witness ==
    /\ dec_pc = "returned"
    /\ dec_encoder_length = MaxLen /\ dec_att.example_length = 2 * MaxLen
    /\ dec_attn.attn_score = <<MaxB, dec_att.n_head, 2 * MaxLen, 2 * MaxLen>>
    /\ dec_x = <<MaxB, MaxLen, dec_att.hidden_size>>
    /\ Len(dec_adds) = 2

\* C16: the attention has n_head query and n_head key projections of width
\* d_head and one value projection of width d_head shared by all heads; for
\* an input [B, T, H] attn_vec is [B, n_head, T, d_head] and out, of shape
\* [B, T, H], is the output projection (d_head -> H) of the mean of attn_vec
\* over the head axis, not of the heads laid side by side.
C16_AttentionStructure ==
    dec_attn # <<>> =>
        LET T == dec_att.example_length
            B == dec_ce[1]
            H == dec_att.hidden_size
            n == dec_att.n_head
            d == dec_att.d_head
        IN  /\ dec_attn.qkv = <<B, T, (2 * n + 1) * d>>
            /\ dec_attn.split = <<n * d, n * d, d>>
            /\ dec_attn.q = <<B, T, n, d>>
            /\ dec_attn.k = <<B, T, n, d>>
            /\ dec_attn.v = <<B, T, d>>
            /\ dec_attn.attn_vec = <<B, n, T, d>>
            /\ dec_attn.m_attn_vec = <<B, T, d>>
            /\ dec_attn.out = Linear(<<B, T, d>>, d, H)
            /\ dec_attn.out = <<B, T, H>>
            /\ dec_attn.out = AttentionForwardShape(dec_att, <<B, T, H>>)

C16_Witness ==
    /\ dec_pc = "slice"
    /\ dec_att.n_head = 2 /\ dec_att.d_head = 2
    /\ dec_attn.attn_vec = <<MaxB, 2, dec_att.example_length, 2>>
    /\ dec_x = <<MaxB, dec_att.example_length, 4>>

\* the storage the local "name" of TFT.forward refers to
Local(name) == mem_alias[<<"forward", name>>]

\* the operations that have read that storage, views of it included
ReadersOf(name) == mem_reads[Local(name)]

\* C17: in a TFT forward pass cs is read by the context projection (lin_c,
\* tft.py:65) of the historical and of the future VSN's joint GRN and by
\* nothing else; ch and cc are read by the historical LSTM call (tft.py:302)
\* as initial hidden and cell state and by nothing else; ce is read by the
\* context projection of the decoder's enrichment GRN and by nothing else;
\* with static inputs the four are the outputs of the four GRNs
\* context_grns[0..3], each applied to the one output of the static VSN.
C17_ContextRouting ==
    (mem_pc \in {"running", "returned"} /\ mem_pass.kind = "TFT") =>
        LET bound(n) == <<"forward", n>> \in DOMAIN mem_alias
            done == mem_pc = "returned"
            csReaders == {<<"temporal_encoder.history_vsn.joint_grn", 65, 1>>,
                          <<"temporal_encoder.future_vsn.joint_grn", 65, 1>>}
            chReaders == {<<"temporal_encoder", 302, 2>>}
            ccReaders == {<<"temporal_encoder", 302, 3>>}
            ceReaders == {<<"decoder.enrichment_grn", 65, 1>>}
        IN  /\ bound("cs") => ReadersOf("cs") \subseteq csReaders
            /\ bound("ch") => ReadersOf("ch") \subseteq chReaders
            /\ bound("cc") => ReadersOf("cc") \subseteq ccReaders
            /\ bound("ce") => ReadersOf("ce") \subseteq ceReaders
            /\ done =>
                  /\ ReadersOf("cs") = csReaders /\ ReadersOf("ch") = chReaders
                  /\ ReadersOf("cc") = ccReaders /\ ReadersOf("ce") = ceReaders
                  /\ Cardinality({Local("cs"), Local("ce"), Local("ch"), Local("cc")}) = 4
            /\ (done /\ mem_pass.n_stat > 0) =>
                  \A i \in 1..4 :
                      LET ctx_grn == "static_encoder.context_grns." \o ToString(i - 1)
                      IN  /\ Local(ContextNames[i]) = <<ctx_grn, "x@72">>
                          /\ <<ctx_grn, 63, 1>> \in mem_reads[<<"static_encoder.vsn", "variable_ctx@189">>]
                          /\ \A r \in mem_reads[<<"static_encoder.vsn", "variable_ctx@189">>] :
                                \E j \in 1..4 :
                                    r[1] = "static_encoder.context_grns." \o ToString(j - 1)

C17_Witness ==
    /\ mem_pc = "returned" /\ mem_pass.kind = "TFT" /\ mem_pass.n_stat = 1
    /\ mem_pass.training
    /\ Local("cs") = <<"static_encoder.context_grns.0", "x@72">>
    /\ ReadersOf("cs") = {<<"temporal_encoder.history_vsn.joint_grn", 65, 1>>,
                          <<"temporal_encoder.future_vsn.joint_grn", 65, 1>>}
    /\ ReadersOf("ce") = {<<"decoder.enrichment_grn", 65, 1>>}

\* C18: a training-mode call draws one channel index for every (batch item,
\* core dimension) pair, each in the range of the channels; what is
\* dispatched to every channel of that batch item at that core dimension is
\* the core value, not weighted, of the drawn channel at that same core
\* dimension, and so is the same for all channels.
C18_SampledDispatch ==
    stad_pc = "ready" =>
        \A r \in StadCalls :
            r.training =>
                LET B == Len(stad_core)
                    C == Len(stad_core[1])
                    D == Len(stad_core[1][1])
                IN  /\ r.branch = "sample"
                    /\ DOMAIN r.indices = 1..B
                    /\ \A b \in 1..B :
                          /\ DOMAIN r.indices[b] = 1..D
                          /\ \A d \in 1..D :
                                /\ r.indices[b][d] \in 1..C
                                /\ \A c \in 1..C :
                                      r.out[b][c][d] = CoreR(stad_core[b][r.indices[b][d]][d])
                                /\ \A c1, c2 \in 1..C : r.out[b][c1][d] = r.out[b][c2][d]

\* a call whose two core dimensions drew different channels
C18_Witness ==
    /\ stad_pc = "ready" /\ stad_last.training /\ stad_last.branch = "sample"
    /\ Len(stad_core) = 1 /\ Len(stad_core[1]) = 2 /\ Len(stad_core[1][1]) = 2
    /\ stad_core[1][1] = <<1, 1>> /\ stad_core[1][2] = <<-1, -1>>
    /\ stad_last.indices[1] = <<1, 2>>
    /\ stad_last.out[1][1] = <<RInt(1), RInt(-1)>>
    /\ stad_last.out[1][2] = <<RInt(1), RInt(-1)>>

\* C19: every softmax of STAD.forward that produces channel pooling weights
\* is given sanitized logits, in training mode and in eval mode: no NaN core
\* logit reaches a pooling softmax.
C19_SanitizedSoftmax ==
    stad_pc = "ready" =>
        \A r \in StadCalls :
            \A b \in 1..Len(r.logits), c \in 1..Len(r.logits[1]), d \in 1..Len(r.logits[1][1]) :
                r.logits[b][c][d] # NaN

=============================================================================
